---- MODULE Spec2Model ----
(***************************************************************************)
(* Forecast-App: the seasonal forecast engine and the accuracy metrics of  *)
(* src/lib/forecast.ts.                                                    *)
(*                                                                         *)
(* Instants (JavaScript Date values) are integers counting minutes since   *)
(* the epoch, 1970-01-01T00:00Z.  The process time zone is part of the     *)
(* environment: a standard offset and at most one change of the offset     *)
(* (a daylight-saving transition).  Date's local getters and setters are   *)
(* modelled as ECMAScript defines them, through LocalTime and UTC.         *)
(*                                                                         *)
(* JavaScript numbers are exact rationals [num, den] with den > 0 in       *)
(* lowest terms, plus NaN.  IEEE-754 rounding is not modelled.             *)
(***************************************************************************)
EXTENDS Integers, Sequences, FiniteSets, TLC

VARIABLES
    zone,            \* the process time zone (environment)
    targetDayStart,  \* argument of buildSeasonalForecast: a Date
    history,         \* argument of buildSeasonalForecast: { ts: Date; value: number }[]
    weeksLookback,   \* argument of buildSeasonalForecast
    points,          \* value returned by buildSeasonalForecast
    actual,          \* argument of mae
    pred,            \* argument of mae
    maeResult,       \* value returned by mae
    mapeResult,      \* value returned by mape
    values,          \* argument of dailyStats
    statsResult,     \* value returned by dailyStats
    pc,              \* position of the caller
    now,             \* Date.now(), in units of 30 seconds
    env,             \* process.env: which of the ERCOT settings are present
    tokenCache,      \* globalThis.__ERCOT_TOKEN_CACHE__
    epc,             \* position of ercotGetJson
    token,           \* ercotGetJson: the token of this call
    attempt,         \* ercotGetJson: the loop counter
    outcomes,        \* what the data requests of this call came to, in order
    ercotResult,     \* what ercotGetJson returned or threw
    calls,           \* the calls of ercotGetJson so far
    scenario,        \* the requests and the provider of this behaviour
    cache,           \* globalThis.__FORECAST_CACHE__
    inflight,        \* the calls of fetchSppRows under way
    events,          \* the cache accesses and upstream calls so far, counted
    rpc,             \* position of GET
    local,           \* GET: targetDayStart, compareRows and the rows of the history days
    response,        \* the latest response of GET
    predVals,        \* GET: predValsForBacktest of the latest computation
    served,          \* the requests so far
    request,         \* the date parameter of the latest request
    rawRows,         \* argument of rowsToHistory: the rows of the provider
    handed,          \* value returned by rowsToHistory
    slotValues,      \* the values that buildSeasonalForecast adds up for one slot, in order
    slotMean,        \* the average it computes for that slot
    isoArgs,         \* arguments of buildIsoFromDateHourInterval
    isoResult,       \* the string it returned
    mounted,         \* Page: the component is mounted
    pageDate,        \* Page: the state date
    pageData,        \* Page: the state data
    pageErr,         \* Page: the state err
    pageLoading,     \* Page: the state loading
    effects          \* Page: the runs of the effect so far, each with its variable cancelled

engineVars == <<zone, targetDayStart, history, weeksLookback, points>>
statsVars == <<actual, pred, maeResult, mapeResult, values, statsResult>>
ercotVars == <<env, tokenCache, epc, token, attempt, outcomes, ercotResult, calls>>
routeVars == <<scenario, cache, inflight, events, rpc, local, response, predVals, served,
               request>>
rowsVars == <<rawRows, handed>>
slotVars == <<slotValues, slotMean>>
isoVars == <<isoArgs, isoResult>>
pageVars == <<mounted, pageDate, pageData, pageErr, pageLoading, effects>>
vars == <<engineVars, statsVars, pc, now, ercotVars, routeVars, rowsVars, slotVars, isoVars,
          pageVars>>

-----------------------------------------------------------------------------
(* JavaScript numbers *)

Abs(n) == IF n < 0 THEN -n ELSE n

RECURSIVE GCD(_, _)
GCD(a, b) == IF b = 0 THEN a ELSE GCD(b, a % b)

NaN == [num |-> 0, den |-> 0]

IsNaN(x) == x.den = 0

\* the number n / d for integers n and d # 0
Frac(n, d) ==
    LET g == GCD(Abs(n), Abs(d))
        s == IF d < 0 THEN -1 ELSE 1
    IN  [num |-> (s * n) \div g, den |-> (s * d) \div g]

Num(n) == [num |-> n, den |-> 1]

\* the value read from an array position past its end
undefined == [undefined |-> TRUE]

\* ToNumber(undefined) is NaN
ToNumber(x) == IF x = undefined THEN NaN ELSE x

NumAdd(x, y) ==
    IF IsNaN(x) \/ IsNaN(y) THEN NaN
    ELSE Frac(x.num * y.den + y.num * x.den, x.den * y.den)

NumSub(x, y) ==
    IF IsNaN(x) \/ IsNaN(y) THEN NaN
    ELSE Frac(x.num * y.den - y.num * x.den, x.den * y.den)

NumAbs(x) == IF IsNaN(x) THEN NaN ELSE [num |-> Abs(x.num), den |-> x.den]

\* x / n for a count n >= 0: 0/0 is NaN (a positive x over 0 would be Infinity,
\* which no caller in this module can produce: a sum over no element is 0)
NumDivCount(x, n) ==
    IF IsNaN(x) THEN NaN
    ELSE IF n = 0 THEN NaN
    ELSE Frac(x.num, x.den * n)

\* (a / b) * (c / d), cancelled crosswise before multiplying
CrossFrac(a, b, c, d) ==
    LET g == GCD(Abs(a), Abs(d))
        h == GCD(Abs(c), Abs(b))
        ga == IF g = 0 THEN 1 ELSE g
        gc == IF h = 0 THEN 1 ELSE h
    IN  Frac((a \div ga) * (c \div gc), (b \div gc) * (d \div ga))

NumMul(x, y) ==
    IF IsNaN(x) \/ IsNaN(y) THEN NaN
    ELSE CrossFrac(x.num, x.den, y.num, y.den)

\* x / y for y # 0
NumDiv(x, y) ==
    IF IsNaN(x) \/ IsNaN(y) THEN NaN
    ELSE CrossFrac(x.num, x.den, y.den, y.num)

Infinity == [inf |-> 1]

MinusInfinity == [inf |-> -1]

\* x < y, for numbers and the two infinities; false when either is NaN
NumLess(x, y) ==
    IF x = Infinity \/ y = MinusInfinity THEN FALSE
    ELSE IF x = MinusInfinity \/ y = Infinity THEN TRUE
    ELSE ~IsNaN(x) /\ ~IsNaN(y) /\ x.num * y.den < y.num * x.den

\* Math.sqrt(x) for x >= 0, kept symbolic: two roots are equal exactly when
\* their radicands are; the root of NaN is NaN
Sqrt(x) == IF IsNaN(x) THEN NaN ELSE [sqrt |-> x]

-----------------------------------------------------------------------------
(* Binary floating point.  A JavaScript number is an IEEE-754 double: a      *)
(* significand of 53 bits and a bounded exponent; the result of + and / is   *)
(* the exact result rounded to the nearest such number, ties to the even     *)
(* significand, and Infinity beyond the largest one.  The same format with a *)
(* significand of Precision bits and exponents up to MaxExponent is small    *)
(* enough to enumerate.                                                      *)

\* bits of the significand
Precision == 3

\* the exponents of the unit in the last place are -MaxExponent .. MaxExponent
MaxExponent == 3

RECURSIVE Pow2(_)
Pow2(k) == IF k = 0 THEN 1 ELSE 2 * Pow2(k - 1)

\* a / 2^e for a rational a >= 0, as <<numerator, denominator>>
Scaled(a, e) ==
    IF e >= 0 THEN <<a.num, a.den * Pow2(e)>> ELSE <<a.num * Pow2(-e), a.den>>

\* a / 2^e is below 2^Precision
Fits(a, e) == Scaled(a, e)[1] < Pow2(Precision) * Scaled(a, e)[2]

\* n / d rounded to an integer, ties to even
RoundHalfEven(n, d) ==
    LET f == n \div d
        r == n % d
    IN  IF 2 * r < d THEN f
        ELSE IF 2 * r > d THEN f + 1
        ELSE IF f % 2 = 0 THEN f ELSE f + 1

\* the largest finite number of the format
MaxFinite == (Pow2(Precision) - 1) * Pow2(MaxExponent)

\* the number of the format nearest to the rational x
RoundToNearest(x) ==
    LET a == NumAbs(x)
    IN  IF x.num = 0 THEN x
        ELSE IF ~Fits(a, MaxExponent) THEN
             (IF x.num < 0 THEN MinusInfinity ELSE Infinity)
        ELSE LET e == CHOOSE k \in (-MaxExponent)..MaxExponent :
                          Fits(a, k) /\ (k = -MaxExponent \/ ~Fits(a, k - 1))
                 m == RoundHalfEven(Scaled(a, e)[1], Scaled(a, e)[2])
                 r == IF e >= 0 THEN Frac(m * Pow2(e), 1) ELSE Frac(m, Pow2(-e))
             IN  IF NumLess(Num(MaxFinite), r)
                   THEN (IF x.num < 0 THEN MinusInfinity ELSE Infinity)
                 ELSE IF x.num < 0 THEN [num |-> -r.num, den |-> r.den] ELSE r

IsInfinite(x) == "inf" \in DOMAIN x

\* x + y of two numbers; y is finite
DoubleAdd(x, y) ==
    IF IsInfinite(x) THEN x
    ELSE IF IsNaN(x) \/ IsNaN(y) THEN NaN
    ELSE RoundToNearest(NumAdd(x, y))

\* x / n for a count n > 0
DoubleDivCount(x, n) ==
    IF IsInfinite(x) THEN x
    ELSE IF IsNaN(x) THEN NaN
    ELSE RoundToNearest(NumDivCount(x, n))

-----------------------------------------------------------------------------
(* JavaScript Date in a time zone z = [std, trans, shift]: the offset from  *)
(* UTC is std minutes before the instant trans and std + shift from it on. *)
(* A day has 1440 minutes.                                                 *)

Offset(z, t) == IF t < z.trans THEN z.std ELSE z.std + z.shift

\* LocalTime(t) of ECMAScript: the wall-clock reading of instant t
LocalTime(z, t) == t + Offset(z, t)

\* UTC(tlocal) of ECMAScript: a wall-clock reading that is skipped or repeated
\* at the transition is interpreted with the offset before the transition
UTC(z, tl) ==
    IF tl - z.std < z.trans THEN tl - z.std
    ELSE IF tl - (z.std + z.shift) >= z.trans THEN tl - (z.std + z.shift)
    ELSE tl - z.std

LocalDay(z, t) == LocalTime(z, t) \div 1440

\* Date.prototype.getDay: 1970-01-01 was a Thursday (4)
getDay(z, t) == (LocalDay(z, t) + 4) % 7

getHours(z, t) == (LocalTime(z, t) % 1440) \div 60

getMinutes(z, t) == LocalTime(z, t) % 60

\* d.setDate(d.getDate() + delta): the same wall-clock time delta calendar days on
addDate(z, t, delta) == UTC(z, LocalTime(z, t) + delta * 1440)

\* d.setHours(0, 0, 0, 0)
setHours0(z, t) == UTC(z, LocalDay(z, t) * 1440)

\* d.setMinutes(m): the hour of d kept, the minutes replaced (m may exceed 59)
setMinutes(z, t, m) ==
    UTC(z, LocalDay(z, t) * 1440 + getHours(z, t) * 60 + m)

\* d.toISOString(): the UTC calendar fields of the instant
toISOString(t) ==
    [day |-> t \div 1440,
     hh |-> (t % 1440) \div 60,
     mm |-> t % 60]

-----------------------------------------------------------------------------
(* src/lib/forecast.ts *)

Slots == 0..95

\* the value of an average that does not exist
null == [null |-> TRUE]

slotIndex(z, d) == getHours(z, d) * 4 + (getMinutes(z, d) \div 15)

\* Array.from({ length: 7 }, () => Array(96).fill(0))
NewTable == [dow \in 0..6 |-> [slot \in Slots |-> 0]]

\* const cutoff = new Date(targetDayStart); cutoff.setDate(cutoff.getDate() - weeksLookback * 7)
cutoffOf(z, target, weeks) == addDate(z, target, -(weeks * 7))

\* variant: the upper bound of the window forgotten
skipsLowerOnly(ts, cutoff, target) == ts < cutoff

\* if (row.ts < cutoff || row.ts >= targetDayStart) continue
skipsRow(ts, cutoff, target) == ts < cutoff \/ ts >= target

\* variant: = in place of +=
overwrite(sum, value) == value

\* sums[dow][slot] += row.value
addValue(sum, value) == sum + value

\* the loop over history, rows k..Len(hist); acc = [sums, counts]
RECURSIVE accumulate(_, _, _, _, _, _)
accumulate(z, acc, hist, cutoff, target, k) ==
    IF k > Len(hist) THEN acc
    ELSE LET row == hist[k] IN
         IF skipsRow(row.ts, cutoff, target)
         THEN accumulate(z, acc, hist, cutoff, target, k + 1)
         ELSE LET dow == getDay(z, row.ts)
                  slot == slotIndex(z, row.ts)
              IN  accumulate(z,
                     [sums |-> [acc.sums EXCEPT ![dow][slot] = addValue(@, row.value)],
                      counts |-> [acc.counts EXCEPT ![dow][slot] = @ + 1]],
                     hist, cutoff, target, k + 1)

\* variant: the division by the count forgotten
sumOnly(sum, count) == IF count # 0 THEN Num(sum) ELSE null

\* counts[targetDow][i] ? sums[targetDow][i] / counts[targetDow][i] : null
slotAvg(sum, count) == IF count # 0 THEN Frac(sum, count) ELSE null

\* variant: avg ?? 0
zeroIfNull(avg, last) == IF avg # null THEN avg ELSE Num(0)

\* avg ?? last
orLast(avg, last) == IF avg # null THEN avg ELSE last

\* variant: a wrong step width
sixteenMinuteSteps(z, base, i) == setMinutes(z, base, i * 16)

\* const ts = new Date(base); ts.setMinutes(i * 15)
slotTime(z, base, i) == setMinutes(z, base, i * 15)

\* one pass of the loop body, for slot i with the carried value last
emitSlot(z, sums, counts, base, last, i) ==
    LET avg == slotAvg(sums[i], counts[i])
        value == orLast(avg, last)
        ts == slotTime(z, base, i)
    IN  [ts |-> toISOString(ts), value |-> value]

\* the passes lo..hi of the loop over the slots, entered with the carried value
\* last: the points they push.  The passes lo..hi are the passes lo..mid followed
\* by the passes mid+1..hi, entered with the value the first part leaves in last.
RECURSIVE emit(_, _, _, _, _, _, _)
emitRest(z, sums, counts, base, first, mid, hi) ==
    first \o emit(z, sums, counts, base, first[Len(first)].value, mid + 1, hi)

emit(z, sums, counts, base, last, lo, hi) ==
    IF lo > hi THEN <<>>
    ELSE IF lo = hi THEN <<emitSlot(z, sums, counts, base, last, lo)>>
    ELSE emitRest(z, sums, counts, base,
                  emit(z, sums, counts, base, last, lo, (lo + hi) \div 2),
                  (lo + hi) \div 2, hi)

\* variant: let last = NaN
seedNaN == NaN

\* let last = 0
seed == Num(0)

buildSeasonalForecast(z, target, hist, weeks) ==
    LET targetDow == getDay(z, target)
        cutoff == cutoffOf(z, target, weeks)
        acc == accumulate(z, [sums |-> NewTable, counts |-> NewTable],
                          hist, cutoff, target, 1)
        base == setHours0(z, target)
    IN  emit(z, acc.sums[targetDow], acc.counts[targetDow], base, seed, 0, 95)

\* the loop of mae over actual, positions i..actual.length; s is the running sum
RECURSIVE maeLoop(_, _, _, _)
maeLoop(act, prd, s, i) ==
    IF i > Len(act) THEN s
    ELSE LET p == IF i <= Len(prd) THEN prd[i] ELSE undefined
         IN  maeLoop(act, prd,
                     NumAdd(s, NumAbs(NumSub(act[i], ToNumber(p)))), i + 1)

\* variant: an empty actual answered with 0
maeZeroWhenEmpty(act, prd) ==
    IF Len(act) = 0 THEN Num(0)
    ELSE NumDivCount(maeLoop(act, prd, Num(0), 1), Len(act))

mae(act, prd) == NumDivCount(maeLoop(act, prd, Num(0), 1), Len(act))

\* the loop of mape over actual, positions i..actual.length; st = [s, n]
RECURSIVE mapeLoop(_, _, _, _)
mapeLoop(act, prd, st, i) ==
    IF i > Len(act) THEN st
    ELSE IF act[i] = Num(0) THEN mapeLoop(act, prd, st, i + 1)
    ELSE LET p == IF i <= Len(prd) THEN prd[i] ELSE undefined
             term == NumAbs(NumDiv(NumSub(act[i], ToNumber(p)), act[i]))
         IN  mapeLoop(act, prd, [s |-> NumAdd(st.s, term), n |-> st.n + 1], i + 1)

mape(act, prd) ==
    LET st == mapeLoop(act, prd, [s |-> Num(0), n |-> 0], 1)
    IN  IF st.n # 0 THEN NumMul(NumDivCount(st.s, st.n), Num(100)) ELSE null

-----------------------------------------------------------------------------
(* dailyStats, of the listing of lib/forecast.ts in src/README.md *)

\* the first loop of dailyStats over values, positions i..values.length
RECURSIVE extremaLoop(_, _, _)
extremaLoop(vs, st, i) ==
    IF i > Len(vs) THEN st
    ELSE extremaLoop(vs,
            [min |-> IF NumLess(vs[i], st.min) THEN vs[i] ELSE st.min,
             max |-> IF NumLess(st.max, vs[i]) THEN vs[i] ELSE st.max,
             sum |-> NumAdd(st.sum, vs[i])],
            i + 1)

\* the second loop: varSum += (v - avg) * (v - avg)
RECURSIVE varSumLoop(_, _, _, _)
varSumLoop(vs, avg, acc, i) ==
    IF i > Len(vs) THEN acc
    ELSE varSumLoop(vs, avg,
            NumAdd(acc, NumMul(NumSub(vs[i], avg), NumSub(vs[i], avg))), i + 1)

\* variant: the sample variance, with divisor N - 1
sampleDivisor(n) == n - 1

\* varSum / values.length
varianceDivisor(n) == n

\* variant: an empty sequence answered with zeros
emptyStatsZero == [min |-> Num(0), max |-> Num(0), avg |-> Num(0), std |-> Num(0)]

\* if (values.length === 0) return { min: NaN, max: NaN, avg: NaN, std: NaN }
emptyStats == [min |-> NaN, max |-> NaN, avg |-> NaN, std |-> NaN]

dailyStats(vs) ==
    IF Len(vs) = 0 THEN emptyStats
    ELSE LET st == extremaLoop(vs, [min |-> Infinity, max |-> MinusInfinity,
                                    sum |-> Num(0)], 1)
             avg == NumDivCount(st.sum, Len(vs))
             varSum == varSumLoop(vs, avg, Num(0), 1)
         IN  [min |-> st.min, max |-> st.max, avg |-> avg,
              std |-> Sqrt(NumDivCount(varSum, varianceDivisor(Len(vs))))]

-----------------------------------------------------------------------------
(* Inputs *)

\* longest history handed to buildSeasonalForecast
MaxHistory == 2

\* longest series handed to mae
MaxSeries == 3

\* no daylight saving; US Central time with the clocks going forward, and going
\* back, at 02:00 wall-clock time of day 59, a Sunday
NoDst == [std |-> 0, trans |-> 0, shift |-> 0]
SpringForward == [std |-> -360, trans |-> 59 * 1440 + 120 + 360, shift |-> 60]
FallBack == [std |-> -300, trans |-> 59 * 1440 + 120 + 300, shift |-> -60]

Zones == {NoDst, SpringForward, FallBack}

\* the target days of a zone: the day of the transition and, where there is a
\* transition, the same weekday one week later
TargetDays(z) == IF z.shift = 0 THEN {59} ELSE {59, 66}

WeeksLookbacks == {1, 4}

\* wall-clock positions of observations: <<days from the target day, minute of the day>>
HistoryTimes == { <<-28, 80>>, <<-7, 0>>, <<-7, 80>>, <<-1, 80>>, <<0, 0>> }

HistoryValues == {-3, 4}

Observations(z, day) ==
    { [ts |-> UTC(z, (day + p[1]) * 1440 + p[2]), value |-> v] :
        p \in HistoryTimes, v \in HistoryValues }

SeqsUpTo(S, n) == UNION { [1..k -> S] : k \in 0..n }

SeriesValues == { Num(0), Num(2), Num(-3), Frac(1, 2) }

\* the series values and an actual that is no further from zero than 1e-6
MapeValues == SeriesValues \cup { Frac(1, 1000000) }

\* a result not returned yet
none == [none |-> TRUE]

\* an Error; timedOut is message.toLowerCase().includes("timed out")
Error(message, mentionsTimedOut) == [error |-> message, timedOut |-> mentionsTimedOut]

IsError(r) == "error" \in DOMAIN r

NoLocal == [target |-> 0, compareRows |-> <<>>, got |-> <<>>]

\* The date parameter is absent, the empty string, a text whose parts are not
\* three non-zero numbers, or names a calendar day; a 'YYYY-MM-DD' string is
\* modelled by the number of its day.
Missing == [kind |-> "missing", day |-> 0]
Unparseable == [kind |-> "text", day |-> 0]
Ymd(day) == [kind |-> "ymd", day |-> day]

\* A JSON value in a row is a number (a rational or, for a literal such as
\* 1e999, Infinity), null, a string [text |-> ...], or undefined where the row
\* is too short.
Text(t) == [text |-> t]

\* StringToNumber of the strings that occur
NumberOfText(t) ==
    IF t = "" THEN Num(0)
    ELSE IF t = "3" THEN Num(3)
    ELSE IF t = "12" THEN Num(12)
    ELSE NaN

\* Number(x): a number is kept, null is 0, undefined is NaN, a string is parsed
Number(x) ==
    IF "num" \in DOMAIN x \/ "inf" \in DOMAIN x THEN x
    ELSE IF x = null THEN Num(0)
    ELSE IF "text" \in DOMAIN x THEN NumberOfText(x.text)
    ELSE NaN

\* the deliveryDate of a row that has none: the empty string
NoDate == -1

\* a row of the provider as parsed from JSON: r[0], r[1], r[2], r[3] and r[5]
RawRow(date, hour, interval, sp, value) ==
    [deliveryDate |-> date, deliveryHour |-> hour, deliveryInterval |-> interval,
     settlementPoint |-> sp, value |-> value]

\* a row whose hour and interval are the numbers hour and interval
Row(date, hour, interval, sp, value) == RawRow(date, Num(hour), Num(interval), sp, value)

-----------------------------------------------------------------------------
(* The provider and the requests of the route *)

\* the price of a slot of a day
Price(day, slot) == (day \div 7) * 3 + slot

\* the quarter hours the provider has rows for: three of delivery hour 1, the
\* first of delivery hour 3 and the first of delivery hour 4
ProvidedSlots == {0, 1, 2, 8, 12}

\* rows of these quarter hours of day `from`, with a row of another settlement
\* point and a row of the following day `to` as the provider sends them along
FullRows(from, to) ==
    << Row(from, 1, 1, "HB_WEST", Num(Price(from, 0))),
       Row(from, 1, 1, "HB_NORTH", Num(7)),
       Row(from, 1, 2, "HB_WEST", Num(Price(from, 1))),
       Row(from, 1, 3, "HB_WEST", Num(Price(from, 2))),
       Row(from, 3, 1, "HB_WEST", Num(Price(from, 8))),
       Row(from, 4, 1, "HB_WEST", Num(Price(from, 12))),
       Row(to, 1, 1, "HB_WEST", Num(Price(to, 0))) >>

\* rows out of order, the second quarter hour missing
GappyRows(from) ==
    << Row(from, 1, 3, "HB_WEST", Num(Price(from, 2))),
       Row(from, 1, 1, "HB_WEST", Num(Price(from, 0))) >>

\* no row of the day asked for, one row of the following day
FollowingDayRows(to) == << Row(to, 1, 1, "HB_WEST", Num(Price(to, 0))) >>

\* the JSON documents the provider may answer a query from..to with
RawAnswers(family, from, to) ==
    IF family = "none" THEN { [items |-> <<>>] }
    ELSE IF family = "some"
      THEN { [items |-> <<Row(from, 1, 1, "HB_WEST", Num(Price(from, 0)))>>] }
    ELSE { [items |-> FullRows(from, to)], [data |-> GappyRows(from)],
           [items |-> FollowingDayRows(to)], [message |-> "no data"] }

\* observations that count for one slot
MaxMatching == 3

\* values of observations: the numbers of the format between 2^(Precision-1) and
\* 2^Precision, a negative one, a half, and the largest finite number
DoubleInputs ==
    { Num(m) : m \in Pow2(Precision - 1)..(Pow2(Precision) - 1) }
    \cup { Num(-(Pow2(Precision) - 1)), Frac(Pow2(Precision - 1) + 1, 2), Num(MaxFinite) }

\* rows in one call of rowsToHistory
MaxRows == 2

\* the days of the rows handed to rowsToHistory: the day of the transition of
\* the zones that have one, and the day before
RowDays == {58, 59}

\* rows that pass every check of rowsToHistory, rows that fail one, and rows
\* whose hour or value is not a JSON number
CandidateRows ==
    { Row(59, 1, 1, "HB_WEST", Num(5)),
      Row(59, 3, 1, "HB_WEST", Num(6)),
      Row(59, 24, 4, "HB_WEST", Num(7)),
      Row(58, 24, 4, " hb_west ", Num(8)),
      Row(59, 1, 1, "HB_NORTH", Num(9)),
      Row(59, 0, 1, "HB_WEST", Num(10)),
      Row(59, 25, 1, "HB_WEST", Num(11)),
      Row(59, 1, 0, "HB_WEST", Num(12)),
      Row(59, 1, 5, "HB_WEST", Num(13)),
      Row(NoDate, 1, 1, "HB_WEST", Num(14)),
      Row(59, 1, 2, "HB_WEST", Infinity),
      Row(59, 1, 2, "HB_WEST", undefined),
      Row(59, 1, 2, "HB_WEST", Text("n/a")),
      Row(59, 1, 2, "HB_WEST", null),
      Row(59, 1, 2, "HB_WEST", Text("12")),
      RawRow(59, Text("3"), Num(2), "HB_WEST", Num(15)),
      RawRow(59, null, Num(2), "HB_WEST", Num(16)) }

\* errors of ercotGetJson: a timeout of the data request, and a failed data
\* request whose body does or does not hold the words "timed out"
UpstreamFailures ==
    { Error("ERCOT API request timed out", TRUE),
      Error("ERCOT API failed", FALSE),
      Error("ERCOT API failed", TRUE) }

\* the JSON document null, on which fetchSppRows fails
NullDocument == [json |-> null]

\* failed calls of fetchSppRows in one behaviour
MaxFailures == 1

\* the server starts at 20:00 local time of day 66
Today == 66

InitNow(z) == 2 * UTC(z, Today * 1440 + 1200)

\* the readings of the clock of the route, in half minutes from its start: a
\* response stored at the start expires after 20, a day's rows after 120
Elapsed == {20, 120, 121}

\* every kind of date parameter around the window with a provider that has
\* data, read at each of the readings of the clock; one target day with a
\* provider that has data or fails, or that has no data or answers null, read
\* once more while the rows of the first request are still valid
Scenarios ==
    { [dates |-> {Missing, Unparseable, Ymd(Today - 1), Ymd(Today), Ymd(Today + 7),
                  Ymd(Today + 8)},
       rows |-> "some", failures |-> {}, readings |-> Elapsed],
      [dates |-> {Ymd(Today)}, rows |-> "some", failures |-> UpstreamFailures, readings |-> {120}],
      [dates |-> {Ymd(Today)}, rows |-> "none", failures |-> {NullDocument}, readings |-> {120}] }

\* one target day, a provider that answers every query
BacktestScenario == [dates |-> {Ymd(Today)}, rows |-> "varied", failures |-> {}, readings |-> {}]

NoScenario == [dates |-> {}, rows |-> "none", failures |-> {}, readings |-> {}]

\* nothing has happened: no key was stored, no access counted
NoEvents == [storedAt |-> <<>>, count |-> <<>>, failed |-> 0]

NoResponse == [status |-> 0, body |-> none, cached |-> FALSE]

\* rowsToHistory was not called, no slot was averaged
IdleRows ==
    /\ rawRows = <<>>
    /\ handed = <<>>
    /\ slotValues = <<>>
    /\ slotMean = none

\* GET was not called
IdleGet ==
    /\ cache = <<>>
    /\ inflight = {}
    /\ events = NoEvents
    /\ rpc = "idle"
    /\ local = NoLocal
    /\ response = NoResponse
    /\ predVals = <<>>
    /\ served = 0
    /\ request = Missing

\* buildIsoFromDateHourInterval was not called
IdleIso ==
    /\ isoArgs = none
    /\ isoResult = none

\* Page is not rendered
IdlePage ==
    /\ mounted = FALSE
    /\ pageDate = Missing
    /\ pageData = null
    /\ pageErr = null
    /\ pageLoading = FALSE
    /\ effects = <<>>

IdleRouteVars == IdleRows /\ IdleGet /\ IdleIso /\ IdlePage

\* the server parts at rest
IdleErcot ==
    /\ env = [subKey |-> TRUE, credentials |-> TRUE]
    /\ tokenCache = null
    /\ epc = "idle"
    /\ token = none
    /\ attempt = 0
    /\ outcomes = <<>>
    /\ ercotResult = none
    /\ calls = 0

IdleServer ==
    /\ now = 0
    /\ IdleErcot
    /\ scenario = NoScenario
    /\ IdleRouteVars

-----------------------------------------------------------------------------
(* The engine: one invocation of buildSeasonalForecast *)

IdleStats ==
    /\ actual = <<>>
    /\ pred = <<>>
    /\ maeResult = none
    /\ mapeResult = none
    /\ values = <<>>
    /\ statsResult = none

InitEngine ==
    /\ zone \in Zones
    /\ \E day \in TargetDays(zone) :
          /\ targetDayStart = UTC(zone, day * 1440)
          /\ history \in SeqsUpTo(Observations(zone, day), MaxHistory)
    /\ weeksLookback \in WeeksLookbacks
    /\ points = <<>>
    /\ IdleStats
    /\ IdleServer
    /\ pc = "forecast"

CallBuildSeasonalForecast ==
    /\ pc = "forecast"
    /\ points' = buildSeasonalForecast(zone, targetDayStart, history, weeksLookback)
    /\ pc' = "returned"
    /\ UNCHANGED <<zone, targetDayStart, history, weeksLookback, statsVars, now, ercotVars, routeVars, rowsVars, slotVars, isoVars, pageVars>>

NextEngine == CallBuildSeasonalForecast

SpecEngine == InitEngine /\ [][NextEngine]_vars

\* the engine on one target day with the default lookback, every order of history
InitReorder ==
    /\ zone \in Zones
    /\ targetDayStart = UTC(zone, 59 * 1440)
    /\ history \in SeqsUpTo(Observations(zone, 59), MaxHistory)
    /\ weeksLookback = 4
    /\ points = <<>>
    /\ IdleStats
    /\ IdleServer
    /\ pc = "forecast"

SpecReorder == InitReorder /\ [][NextEngine]_vars

-----------------------------------------------------------------------------
(* The metrics: one invocation of mae *)

IdleEngine ==
    /\ zone = NoDst
    /\ targetDayStart = 0
    /\ history = <<>>
    /\ weeksLookback = 4
    /\ points = <<>>

InitStats ==
    /\ IdleEngine
    /\ actual \in SeqsUpTo(SeriesValues, MaxSeries)
    /\ pred \in SeqsUpTo(SeriesValues, MaxSeries)
    /\ maeResult = none
    /\ mapeResult = none
    /\ values = <<>>
    /\ statsResult = none
    /\ IdleServer
    /\ pc = "mae"

CallMae ==
    /\ pc = "mae"
    /\ maeResult' = mae(actual, pred)
    /\ pc' = "returned"
    /\ UNCHANGED <<engineVars, actual, pred, mapeResult, values, statsResult, now, ercotVars, routeVars, rowsVars, slotVars, isoVars, pageVars>>

NextStats == CallMae

SpecStats == InitStats /\ [][NextStats]_vars

\* one invocation of mape
InitMape ==
    /\ IdleEngine
    /\ actual \in SeqsUpTo(MapeValues, MaxSeries)
    /\ pred \in SeqsUpTo(SeriesValues, MaxSeries)
    /\ maeResult = none
    /\ mapeResult = none
    /\ values = <<>>
    /\ statsResult = none
    /\ IdleServer
    /\ pc = "mape"

CallMape ==
    /\ pc = "mape"
    /\ mapeResult' = mape(actual, pred)
    /\ pc' = "returned"
    /\ UNCHANGED <<engineVars, actual, pred, maeResult, values, statsResult, now, ercotVars, routeVars, rowsVars, slotVars, isoVars, pageVars>>

NextMape == CallMape

SpecMape == InitMape /\ [][NextMape]_vars

\* one invocation of dailyStats
InitDaily ==
    /\ IdleEngine
    /\ actual = <<>>
    /\ pred = <<>>
    /\ maeResult = none
    /\ mapeResult = none
    /\ values \in SeqsUpTo(SeriesValues, MaxSeries)
    /\ statsResult = none
    /\ IdleServer
    /\ pc = "dailyStats"

CallDailyStats ==
    /\ pc = "dailyStats"
    /\ statsResult' = dailyStats(values)
    /\ pc' = "returned"
    /\ UNCHANGED <<engineVars, actual, pred, maeResult, mapeResult, values, now, ercotVars, routeVars, rowsVars, slotVars, isoVars, pageVars>>

NextDaily == CallDailyStats

SpecDaily == InitDaily /\ [][NextDaily]_vars

-----------------------------------------------------------------------------
(* lib/ercot.ts: getIdToken and ercotGetJson *)

\* TOKEN_REFRESH_SKEW_MS = 30_000, in units of 30 seconds
TOKEN_REFRESH_SKEW_MS == 1

\* json.expires_in ?? 3600, in units of 30 seconds
DefaultExpiresIn == 120

maxAttempts == 2

\* variant: any 5xx status is retried
retriesServerErrors(status) == status = 429 \/ status >= 500

isRetryableStatus(status) == status = 429 \/ status = 502 \/ status = 503 \/ status = 504

\* response bodies: a JSON document, text that is not JSON, and text that is
\* not JSON and holds the words "timed out"
Texts == {"json", "garbage", "timed out"}

\* the clock stops here
MaxNow == 3

\* calls of ercotGetJson in one behaviour
MaxCalls == 2

\* id_token values of the token endpoint
Tokens == {[id_token |-> "t1"], [id_token |-> "t2"]}

\* expires_in of a token response: absent, or 60 seconds
ExpiresIns == {undefined, Num(2)}

\* what a token request can come to: a response, an abort by the timer, or a
\* failure of fetch itself
TokenOutcomes ==
    { [kind |-> "response", status |-> 200, text |-> "json", id_token |-> t, expires_in |-> x] :
        t \in Tokens \cup {undefined}, x \in ExpiresIns }
    \cup { [kind |-> "response", status |-> st, text |-> tx, id_token |-> undefined,
            expires_in |-> undefined] :
        st \in {200, 401}, tx \in {"garbage", "timed out"} }
    \cup { [kind |-> k, status |-> 0, text |-> "garbage", id_token |-> undefined,
            expires_in |-> undefined] : k \in {"abort", "network"} }

DataStatuses == {200, 401, 429, 500, 502, 503, 504}

\* what one data request can come to
DataOutcomes ==
    { [kind |-> "response", status |-> st, text |-> tx] : st \in DataStatuses, tx \in Texts }
    \cup { [kind |-> k, status |-> 0, text |-> "garbage"] : k \in {"abort", "network"} }

\* the JSON value of a body
JsonParse(text) == [json |-> text]

\* the SyntaxError of JSON.parse or resp.json(): an engine may quote the start
\* of the text in its message
SyntaxErrors(text) == { Error("SyntaxError", q) : q \in {FALSE, text = "timed out"} }

InitErcot ==
    /\ IdleEngine
    /\ IdleStats
    /\ pc = "server"
    /\ now = 0
    /\ scenario = NoScenario
    /\ IdleRouteVars
    /\ env \in [subKey : BOOLEAN, credentials : BOOLEAN]
    /\ tokenCache = null
    /\ epc = "idle"
    /\ token = none
    /\ attempt = 0
    /\ outcomes = <<>>
    /\ ercotResult = none
    /\ calls = 0

ercotFrame == UNCHANGED <<engineVars, statsVars, pc, env, routeVars, rowsVars, slotVars, isoVars, pageVars>>

\* variant: the cached token is used up to its expiry
usableToExpiry(cached, t) == cached # null /\ t < cached.expMs

\* cached && Date.now() < cached.expMs - TOKEN_REFRESH_SKEW_MS
usable(cached, t) == cached # null /\ t < cached.expMs - TOKEN_REFRESH_SKEW_MS

\* the state at the first data request of a call
firstAttempt(tok) ==
    /\ token' = tok
    /\ attempt' = 1
    /\ epc' = "data"

\* the call ends by throwing e
throws(e) ==
    /\ ercotResult' = e
    /\ epc' = "done"

\* ercotGetJson up to its first await that waits for the network, with the
\* synchronous start of getIdToken
CallErcotGetJson ==
    /\ epc \in {"idle", "done"}
    /\ calls < MaxCalls
    /\ calls' = calls + 1
    /\ outcomes' = <<>>
    /\ IF ~env.subKey
         THEN /\ throws(Error("Missing ERCOT_SUBSCRIPTION_KEY", FALSE))
              /\ UNCHANGED <<token, attempt>>
       ELSE IF usable(tokenCache, now)
         THEN /\ firstAttempt(tokenCache.token)
              /\ ercotResult' = none
       ELSE IF ~env.credentials
         THEN /\ throws(Error("Missing ERCOT_USERNAME / ERCOT_PASSWORD", FALSE))
              /\ UNCHANGED <<token, attempt>>
       ELSE /\ epc' = "token"
            /\ ercotResult' = none
            /\ UNCHANGED <<token, attempt>>
    /\ UNCHANGED <<now, tokenCache>>
    /\ ercotFrame

\* the token request settles: the rest of getIdToken and the start of the loop
TokenSettles ==
    /\ epc = "token"
    /\ \E o \in TokenOutcomes :
          IF o.kind = "abort"
            THEN /\ throws(Error("ERCOT token request timed out", TRUE))
                 /\ UNCHANGED <<tokenCache, token, attempt>>
          ELSE IF o.kind = "network"
            THEN /\ throws(Error("fetch failed", FALSE))
                 /\ UNCHANGED <<tokenCache, token, attempt>>
          ELSE IF o.status # 200
            THEN /\ throws(Error("ERCOT token failed", o.text = "timed out"))
                 /\ UNCHANGED <<tokenCache, token, attempt>>
          ELSE IF o.text # "json"
            THEN /\ \E e \in SyntaxErrors(o.text) : throws(e)
                 /\ UNCHANGED <<tokenCache, token, attempt>>
          ELSE IF o.id_token = undefined
            THEN /\ throws(Error("ERCOT token response missing id_token", FALSE))
                 /\ UNCHANGED <<tokenCache, token, attempt>>
          ELSE /\ tokenCache' =
                     [token |-> o.id_token,
                      expMs |-> now + (IF o.expires_in = undefined THEN DefaultExpiresIn
                                       ELSE o.expires_in.num)]
               /\ firstAttempt(o.id_token)
               /\ UNCHANGED ercotResult
    /\ UNCHANGED <<now, outcomes, calls>>
    /\ ercotFrame

\* variant: attempt < maxAttempts not tested
retryAlways(e) == epc' = "sleep" /\ UNCHANGED ercotResult

\* after an outcome that may be retried: sleep and continue, or give up with e
retryOr(e) ==
    IF attempt < maxAttempts
      THEN epc' = "sleep" /\ UNCHANGED ercotResult
      ELSE throws(e)

\* one data request settles: the body of the loop
DataSettles ==
    /\ epc = "data"
    /\ \E o \in DataOutcomes :
          /\ outcomes' = Append(outcomes, o)
          /\ IF o.kind = "abort"
               THEN retryOr(Error("ERCOT API request timed out", TRUE))
             ELSE IF o.kind = "network"
               THEN throws(Error("fetch failed", FALSE))
             ELSE IF o.status # 200
               THEN IF isRetryableStatus(o.status)
                      THEN retryOr(Error("ERCOT API failed", o.text = "timed out"))
                      ELSE throws(Error("ERCOT API failed", o.text = "timed out"))
             ELSE IF o.text # "json"
               THEN \E e \in SyntaxErrors(o.text) : throws(e)
             ELSE /\ ercotResult' = JsonParse(o.text)
                  /\ epc' = "done"
    /\ UNCHANGED <<now, tokenCache, token, attempt, calls>>
    /\ ercotFrame

\* sleep(300 * attempt) is over: continue with the next attempt
Wake ==
    /\ epc = "sleep"
    /\ attempt' = attempt + 1
    /\ epc' = IF attempt + 1 <= maxAttempts THEN "data" ELSE "done"
    /\ ercotResult' = IF attempt + 1 <= maxAttempts THEN ercotResult
                      ELSE Error("ERCOT API failed after retries", FALSE)
    /\ UNCHANGED <<now, tokenCache, token, outcomes, calls>>
    /\ ercotFrame

\* time passes
TickErcot ==
    /\ pc = "server"
    /\ now < MaxNow
    /\ now' = now + 1
    /\ UNCHANGED ercotVars
    /\ UNCHANGED <<engineVars, statsVars, pc, routeVars, rowsVars, slotVars, isoVars, pageVars>>

NextErcot == CallErcotGetJson \/ TokenSettles \/ DataSettles \/ Wake \/ TickErcot

SpecErcot == InitErcot /\ [][NextErcot]_vars

\* fetch settles, by the abort of withTimeout at the latest, and sleep ends
FairSpecErcot ==
    /\ SpecErcot
    /\ WF_vars(TokenSettles)
    /\ WF_vars(DataSettles)
    /\ WF_vars(Wake)

-----------------------------------------------------------------------------
(* app/api/forecast/route.ts: cache, dates and rows *)

\* a reading of Date.now() as a Date: the clock counts half minutes
DateOf(t) == t \div 2

\* CACHE_TTL_MS = 10 * 60 * 1000, in units of 30 seconds
CACHE_TTL_MS == 20

\* DAY_ROWS_TTL_MS = 60 * 60 * 1000, in units of 30 seconds
DAY_ROWS_TTL_MS == 120

\* `forecast_v4:${targetYmd}`
respCacheKey(targetYmd) == [prefix |-> "forecast_v4", date |-> targetYmd]

\* `rows:HB_WEST:${dateYmd}`
rowsKey(dateYmd) == [prefix |-> "rows:HB_WEST", date |-> dateYmd]

\* variant: an entry is kept one tick longer
expiredLate(t, expMs) == t > expMs + 1

\* Date.now() > entry.expMs
expired(t, expMs) == t > expMs

\* cacheGet at time t: the value returned and the map it leaves
cacheGet(c, key, t) ==
    IF key \notin DOMAIN c THEN [value |-> null, cache |-> c]
    ELSE IF expired(t, c[key].expMs)
      THEN [value |-> null, cache |-> [k \in DOMAIN c \ {key} |-> c[k]]]
    ELSE [value |-> c[key].value, cache |-> c]

\* cacheSet at time t: the map it leaves
cacheSet(c, key, value, ttlMs, t) ==
    [k \in DOMAIN c \cup {key} |->
        IF k = key THEN [value |-> value, expMs |-> t + ttlMs] ELSE c[k]]

\* parseYmd: null, or the Date new Date(y, m - 1, d) at local midnight
parseYmd(z, date) ==
    IF date.kind # "ymd" THEN null
    ELSE [time |-> setHours0(z, UTC(z, date.day * 1440))]

toStartOfDay(z, d) == setHours0(z, d)

addDays(z, d, days) == setHours0(z, addDate(z, d, days))

\* ymd(d): the local calendar day of d
ymd(z, d) == LocalDay(z, d)

nextDayYmd(z, dateYmd) == ymd(z, addDate(z, parseYmd(z, Ymd(dateYmd)).time, 1))

\* variant: hourStart = deliveryHour, the hour that ends the delivery hour
buildIsoFromHourEnding(z, dateStr, deliveryHour, deliveryInterval) ==
    toISOString(UTC(z, dateStr * 1440 + deliveryHour * 60 + (deliveryInterval - 1) * 15))

\* new Date(y, m - 1, d, hourStart, minute, 0, 0).toISOString()
buildIsoFromDateHourInterval(z, dateStr, deliveryHour, deliveryInterval) ==
    toISOString(UTC(z, dateStr * 1440 + (deliveryHour - 1) * 60 + (deliveryInterval - 1) * 15))

\* new Date(tsIso)
newDate(iso) == iso.day * 1440 + iso.hh * 60 + iso.mm

daySlot96(deliveryHour, deliveryInterval) == (deliveryHour - 1) * 4 + (deliveryInterval - 1)

\* String(r[3] ?? "").trim().toUpperCase()
settlementPointOf(sp) == IF sp = " hb_west " THEN "HB_WEST" ELSE sp

\* Number.isFinite(value)
isFinite(x) == "num" \in DOMAIN x /\ ~IsNaN(x)

\* array.sort by ascending key: x goes behind the elements whose key is not larger
insertByKey(sorted, x) ==
    LET n == Cardinality({ i \in DOMAIN sorted : sorted[i].key <= x.key })
    IN  SubSeq(sorted, 1, n) \o <<x>> \o SubSeq(sorted, n + 1, Len(sorted))

RECURSIVE sortByKey(_, _)
sortByKey(s, n) == IF n = 0 THEN <<>> ELSE insertByKey(sortByKey(s, n - 1), s[n])

\* Number.isFinite(x) && x >= lo && x <= hi
inRange(x, lo, hi) == isFinite(x) /\ ~NumLess(x, Num(lo)) /\ ~NumLess(Num(hi), x)

\* the checks of parseRowsToPoints on one row
\* F of the value of x, with x computed once
Then(x, F(_)) == CHOOSE out \in { F(v) : v \in {x} } : TRUE

\* const hour = Number(r[1]); const interval = Number(r[2]); const value = Number(r[5])
numbersOf(r) ==
    [r EXCEPT !.deliveryHour = Number(@), !.deliveryInterval = Number(@), !.value = Number(@)]

isPointRow(r, wantedDate) ==
    /\ r.deliveryDate = wantedDate
    /\ inRange(Number(r.deliveryHour), 1, 24)
    /\ inRange(Number(r.deliveryInterval), 1, 4)
    /\ settlementPointOf(r.settlementPoint) = "HB_WEST"
    /\ isFinite(Number(r.value))

parseRowsToPoints(z, rows, wantedDate) ==
    Then(SelectSeq(rows, LAMBDA r : isPointRow(r, wantedDate)), LAMBDA kept :
    Then([i \in DOMAIN kept |-> numbersOf(kept[i])], LAMBDA nums :
    Then([i \in DOMAIN nums |->
            [key |-> daySlot96(nums[i].deliveryHour.num, nums[i].deliveryInterval.num),
             ts |-> buildIsoFromDateHourInterval(z, nums[i].deliveryDate,
                       nums[i].deliveryHour.num, nums[i].deliveryInterval.num),
             value |-> nums[i].value]], LAMBDA keyed :
    Then(sortByKey(keyed, Len(keyed)), LAMBDA sorted :
        [i \in DOMAIN sorted |->
            [ts |-> sorted[i].ts, value |-> sorted[i].value,
             interval |-> sorted[i].key + 1]]))))

\* the checks of rowsToHistory on one row
isHistoryRow(r) ==
    /\ r.deliveryDate # NoDate
    /\ settlementPointOf(r.settlementPoint) = "HB_WEST"
    /\ inRange(Number(r.deliveryHour), 1, 24)
    /\ inRange(Number(r.deliveryInterval), 1, 4)
    /\ isFinite(Number(r.value))

rowsToHistory(z, rows) ==
    Then(SelectSeq(rows, isHistoryRow), LAMBDA kept :
    Then([i \in DOMAIN kept |-> numbersOf(kept[i])], LAMBDA nums :
    Then([i \in DOMAIN nums |->
            [key |-> newDate(buildIsoFromDateHourInterval(z, nums[i].deliveryDate,
                        nums[i].deliveryHour.num, nums[i].deliveryInterval.num)),
             value |-> nums[i].value]], LAMBDA keyed :
    Then(sortByKey(keyed, Len(keyed)), LAMBDA sorted :
        [i \in DOMAIN sorted |-> [ts |-> sorted[i].key, value |-> sorted[i].value.num]]))))

\* extractRows: the first array among items, data, _embedded.data, _embedded.items
extractRows(raw) ==
    IF "items" \in DOMAIN raw THEN raw.items
    ELSE IF "data" \in DOMAIN raw THEN raw.data
    ELSE <<>>

\* previousSameWeekdayDates(target, 4)
previousSameWeekdayDates(z, target) ==
    LET d0 == toStartOfDay(z, target)
        d1 == addDays(z, d0, -7)
        d2 == addDays(z, d1, -7)
        d3 == addDays(z, d2, -7)
        d4 == addDays(z, d3, -7)
    IN  <<d1, d2, d3, d4>>

\* variant: the rows of the latest history day left out
flatOfEarlier(lists) == lists[2] \o lists[3] \o lists[4]

\* array.flat() of the four row lists
flat(lists) == lists[1] \o lists[2] \o lists[3] \o lists[4]

ValuesOf(pts) == [i \in DOMAIN pts |-> pts[i].value]

\* variant: the forecast of the target day reused for the comparison day
forecastOfTargetDay(z, target, compareDay, historyAll) ==
    buildSeasonalForecast(z, target, historyAll, 4)

\* lines 268-269: the forecast of the comparison day from the history before it
forecastComparePoints(z, target, compareDay, historyAll) ==
    buildSeasonalForecast(z, compareDay,
        SelectSeq(historyAll, LAMBDA p : p.ts < compareDay), 4)

\* lines 254-301 once all rows are there: the response and the backtest
\* predictions behind it.  The stats of the document are dailyStats of the
\* values of its forecast and of its actuals; they are not stored with it.
compute(z, target, compareRows, histRowsList) ==
    LET targetYmd == ymd(z, target)
        compareDay == addDays(z, target, -7)
        compareYmd == ymd(z, compareDay)
        actualsCompare == parseRowsToPoints(z, compareRows, compareYmd)
        historyAll == rowsToHistory(z, flat(histRowsList))
    IN  IF Len(historyAll) = 0
          THEN [status |-> 502, body |-> [error |-> "No HB_WEST history returned from ERCOT."],
                predVals |-> <<>>, ok |-> FALSE]
        ELSE
          LET forecastPoints == buildSeasonalForecast(z, target, historyAll, 4)
              comparePoints == forecastComparePoints(z, target, compareDay, historyAll)
              actualVals == ValuesOf(actualsCompare)
              predValsForBacktest == ValuesOf(comparePoints)
          IN  [status |-> 200,
               body |-> [date |-> targetYmd,
                         forecast |-> forecastPoints,
                         actuals |-> [date |-> compareYmd, points |-> actualsCompare],
                         backtest |-> [date |-> compareYmd,
                                       mae |-> mae(actualVals, predValsForBacktest),
                                       mape |-> mape(actualVals, predValsForBacktest),
                                       actualCount |-> Len(actualVals)]],
               predVals |-> predValsForBacktest, ok |-> TRUE]

-----------------------------------------------------------------------------
(* app/api/forecast/route.ts: GET *)

\* The variables of the route as one record, so that the synchronous stretches
\* of the handler compose.
RouteState ==
    [cache |-> cache, inflight |-> inflight, events |-> events, rpc |-> rpc,
     local |-> local, response |-> response, predVals |-> predVals]

Commit(s) ==
    \E r \in {s} :
        /\ cache' = r.cache
        /\ inflight' = r.inflight
        /\ events' = r.events
        /\ rpc' = r.rpc
        /\ local' = r.local
        /\ response' = r.response
        /\ predVals' = r.predVals

\* f with the count of k raised by one
Counted(f, k) ==
    [x \in DOMAIN f \cup {k} |->
        IF x # k THEN f[x] ELSE IF k \in DOMAIN f THEN f[k] + 1 ELSE 1]

\* request q does type ("get", "set", "call" or "fail") on key at time t
logged(s, type, key, t, q) ==
    [s EXCEPT !.events =
        [storedAt |-> IF type # "set" THEN @.storedAt
                      ELSE [x \in DOMAIN @.storedAt \cup {key} |->
                               IF x = key THEN t ELSE @.storedAt[x]],
         count |-> Counted(@.count, [type |-> type, key |-> key, req |-> q]),
         failed |-> IF type = "fail" THEN @.failed + 1 ELSE @.failed]]

\* cacheGet by request q at time t
getCached(s, key, t, q) ==
    LET g == cacheGet(s.cache, key, t)
    IN  [st |-> logged([s EXCEPT !.cache = g.cache], "get", key, t, q), value |-> g.value]

\* cacheSet by request q at time t
setCached(s, key, value, ttlMs, t, q) ==
    logged([s EXCEPT !.cache = cacheSet(s.cache, key, value, ttlMs, t)], "set", key, t, q)

\* the handler returns
respond(s, status, body, fromCache) ==
    [s EXCEPT !.rpc = "idle", !.local = NoLocal,
              !.response = [status |-> status, body |-> body, cached |-> fromCache]]

\* variant: the rows are not looked up in the cache
fetchDayRowsAfresh(s, z, dateYmd, t, q) ==
    LET g == getCached(s, rowsKey(dateYmd), t, q)
    IN  [st |-> logged([g.st EXCEPT !.inflight = @ \cup
                            {[from |-> dateYmd, to |-> nextDayYmd(z, dateYmd), req |-> q]}],
                       "call", rowsKey(dateYmd), t, q),
         rows |-> none]

\* fetchDayRows up to its await: the rows from the cache, or an upstream call
\* for dateYmd .. nextDayYmd(dateYmd) under way
fetchDayRows(s, z, dateYmd, t, q) ==
    LET g == getCached(s, rowsKey(dateYmd), t, q)
    IN  IF g.value # null THEN [st |-> g.st, rows |-> g.value]
        ELSE [st |-> logged([g.st EXCEPT !.inflight = @ \cup
                                {[from |-> dateYmd, to |-> nextDayYmd(z, dateYmd), req |-> q]}],
                            "call", rowsKey(dateYmd), t, q),
              rows |-> none]

\* histDays.map((d) => fetchDayRows(ymd(d))): the four calls start in order
RECURSIVE startAll(_, _, _, _, _, _, _)
startAll(s, z, days, k, got, t, q) ==
    IF k > Len(days) THEN [st |-> s, got |-> got]
    ELSE LET f == fetchDayRows(s, z, ymd(z, days[k]), t, q)
         IN  startAll(f.st, z, days, k + 1, Append(got, f.rows), t, q)

\* variant: the body is cached whatever the status
finishCaching(s, z, target, compareRows, got, t, q) ==
    LET r == compute(z, target, compareRows, [i \in DOMAIN got |-> got[i].rows])
        done == [s EXCEPT !.predVals = r.predVals]
    IN  respond(setCached(done, respCacheKey(ymd(z, target)), r.body, CACHE_TTL_MS, t, q),
                r.status, r.body, FALSE)

\* lines 259-301: all rows are there
finish(s, z, target, compareRows, got, t, q) ==
    LET r == compute(z, target, compareRows, [i \in DOMAIN got |-> got[i].rows])
        done == [s EXCEPT !.predVals = r.predVals]
    IN  IF r.ok
          THEN respond(setCached(done, respCacheKey(ymd(z, target)), r.body, CACHE_TTL_MS, t, q),
                       200, r.body, FALSE)
          ELSE respond(done, r.status, r.body, FALSE)

\* lines 254-258: the rows of the comparison day are there
afterCompare(s, z, target, compareRows, t, q) ==
    LET f == startAll(s, z, previousSameWeekdayDates(z, target), 1, <<>>, t, q)
    IN  IF \A i \in DOMAIN f.got : f.got[i] # none
          THEN finish(f.st, z, target, compareRows, f.got, t, q)
          ELSE [f.st EXCEPT !.rpc = "history",
                            !.local = [target |-> target, compareRows |-> compareRows,
                                       got |-> f.got]]

\* lines 302-305
catch(s, e) ==
    respond(s, IF e.timedOut THEN 504 ELSE 502, [error |-> e.error], FALSE)

\* variant: the last day of the window left out
outsideHalfOpenWindow(target, today, max) == target < today \/ target >= max

\* targetDayStart < today || targetDayStart > max
outsideWindow(target, today, max) == target < today \/ target > max

\* GET up to its first await that waits for the network
handle(s, z, date, t, q) ==
    IF date.kind = "missing" THEN respond(s, 400, [error |-> "Missing date"], FALSE)
    ELSE IF parseYmd(z, date) = null
      THEN respond(s, 400, [error |-> "Invalid date (use YYYY-MM-DD)"], FALSE)
    ELSE
      LET target == parseYmd(z, date).time
          today == toStartOfDay(z, DateOf(t))
          max == addDays(z, today, 7)
      IN  IF outsideWindow(target, today, max)
            THEN respond(s, 400, [error |-> "Date must be within the next 7 days"], FALSE)
          ELSE
            LET g == getCached(s, respCacheKey(ymd(z, target)), t, q)
            IN  IF g.value # null THEN respond(g.st, 200, g.value, TRUE)
                ELSE
                  LET compareDay == addDays(z, target, -7)
                      f == fetchDayRows(g.st, z, ymd(z, compareDay), t, q)
                  IN  IF f.rows # none
                        THEN afterCompare(f.st, z, target, f.rows.rows, t, q)
                        ELSE [f.st EXCEPT !.rpc = "compare",
                                          !.local = [target |-> target, compareRows |-> <<>>,
                                                     got |-> <<>>]]

\* requests served in one behaviour
MaxRequests == 2

routeFrame == UNCHANGED <<targetDayStart, history, weeksLookback, points, statsVars, pc,
                          ercotVars, zone, scenario, rowsVars, slotVars, isoVars, pageVars>>

\* a request arrives while no handler is waiting
Request ==
    /\ rpc = "idle"
    /\ served < MaxRequests
    /\ \E date \in scenario.dates :
          /\ request' = date
          /\ Commit(handle(RouteState, zone, date, now, served + 1))
    /\ served' = served + 1
    /\ UNCHANGED now
    /\ routeFrame

\* the position of day dateYmd among the history days of the waiting handler
histIndex(z, target, dateYmd) ==
    CHOOSE i \in 1..4 : ymd(z, previousSameWeekdayDates(z, target)[i]) = dateYmd

\* the call of ercotGetJson of one fetchDayRows settles with outcome o: the
\* rest of fetchSppRows and fetchDayRows, and of the handler if it waits for it
settle(s, z, f, o, t, waited) ==
    LET s0 == [s EXCEPT !.inflight = @ \ {f}]
        s1 == logged(s0, "fail", rowsKey(f.from), t, f.req)
    IN  IF IsError(o) THEN IF waited THEN catch(s1, o) ELSE s1
        ELSE IF o.json = null
          THEN IF waited THEN catch(s1, Error("TypeError", FALSE)) ELSE s1
        ELSE
          LET rows == extractRows(o.json)
              s2 == setCached(s0, rowsKey(f.from), [rows |-> rows], DAY_ROWS_TTL_MS, t, f.req)
          IN  IF ~waited THEN s2
              ELSE IF s.rpc = "compare"
                THEN afterCompare(s2, z, s.local.target, rows, t, f.req)
              ELSE
                LET got == [s.local.got EXCEPT ![histIndex(z, s.local.target, f.from)] =
                                                    [rows |-> rows]]
                IN  IF \A i \in DOMAIN got : got[i] # none
                      THEN finish(s2, z, s.local.target, s.local.compareRows, got, t, f.req)
                      ELSE [s2 EXCEPT !.local.got = got]

\* what ercotGetJson can come to for the provider of the scenario
Answers(sc, f) ==
    (IF events.failed < MaxFailures THEN sc.failures ELSE {})
    \cup { [json |-> j] : j \in RawAnswers(sc.rows, f.from, f.to) }

FetchSettles ==
    /\ \E f \in inflight : \E o \in Answers(scenario, f) :
          Commit(settle(RouteState, zone, f, o, now, f.req = served /\ rpc # "idle"))
    /\ UNCHANGED <<now, served, request>>
    /\ routeFrame

\* time passes between two requests
TickRoute ==
    /\ rpc = "idle"
    /\ served > 0
    /\ \E e \in scenario.readings :
          /\ now < InitNow(zone) + e
          /\ now' = InitNow(zone) + e
    /\ UNCHANGED <<cache, inflight, events, rpc, local, response, predVals, served, request>>
    /\ routeFrame

InitRoute ==
    /\ zone = SpringForward
    /\ targetDayStart = 0
    /\ history = <<>>
    /\ weeksLookback = 4
    /\ points = <<>>
    /\ IdleStats
    /\ IdleErcot
    /\ pc = "route"
    /\ now = InitNow(zone)
    /\ scenario \in Scenarios
    /\ IdleRouteVars

NextRoute == Request \/ FetchSettles \/ TickRoute

SpecRoute == InitRoute /\ [][NextRoute]_vars

InitBacktest ==
    /\ zone \in Zones
    /\ targetDayStart = 0
    /\ history = <<>>
    /\ weeksLookback = 4
    /\ points = <<>>
    /\ IdleStats
    /\ IdleErcot
    /\ pc = "route"
    /\ now = InitNow(zone)
    /\ scenario = BacktestScenario
    /\ IdleRouteVars

NextBacktest == Request \/ FetchSettles

SpecBacktest == InitBacktest /\ [][NextBacktest]_vars

-----------------------------------------------------------------------------
(* rowsToHistory on its own *)

InitRows ==
    /\ zone \in Zones
    /\ targetDayStart = 0
    /\ history = <<>>
    /\ weeksLookback = 4
    /\ points = <<>>
    /\ IdleStats
    /\ IdleErcot
    /\ pc = "rows"
    /\ now = 0
    /\ scenario = NoScenario
    /\ IdleGet
    /\ rawRows \in SeqsUpTo(CandidateRows, MaxRows)
    /\ handed = <<>>
    /\ slotValues = <<>>
    /\ slotMean = none
    /\ IdleIso
    /\ IdlePage

CallRowsToHistory ==
    /\ pc = "rows"
    /\ handed' = rowsToHistory(zone, rawRows)
    /\ pc' = "handed"
    /\ UNCHANGED <<engineVars, statsVars, now, ercotVars, routeVars, rawRows, slotVars, isoVars, pageVars>>

NextRows == CallRowsToHistory

SpecRows == InitRows /\ [][NextRows]_vars

-----------------------------------------------------------------------------
(* buildSeasonalForecast: the arithmetic of one slot in floating point *)

\* sums[dow][slot] += row.value
addValueDouble(sum, value) == DoubleAdd(sum, value)

\* sums[dow][slot] after the first k of the values vs
RECURSIVE sumOfSlot(_, _)
sumOfSlot(vs, k) ==
    IF k = 0 THEN Num(0) ELSE addValueDouble(sumOfSlot(vs, k - 1), vs[k])

\* variant: the division by the count forgotten
sumOnlyDouble(sum, count) == sum

\* sums[targetDow][i] / counts[targetDow][i]
slotAvgDouble(sum, count) == DoubleDivCount(sum, count)

InitSlot ==
    /\ zone = NoDst
    /\ targetDayStart = 0
    /\ history = <<>>
    /\ weeksLookback = 4
    /\ points = <<>>
    /\ IdleStats
    /\ now = 0
    /\ IdleErcot
    /\ scenario = NoScenario
    /\ IdleGet
    /\ rawRows = <<>>
    /\ handed = <<>>
    /\ pc = "slot"
    /\ slotValues \in SeqsUpTo(DoubleInputs, MaxMatching) \ {<<>>}
    /\ slotMean = none
    /\ IdleIso
    /\ IdlePage

\* the loop over history and the loop body for the slot, for these values
AverageSlot ==
    /\ pc = "slot"
    /\ slotMean' = slotAvgDouble(sumOfSlot(slotValues, Len(slotValues)), Len(slotValues))
    /\ pc' = "averaged"
    /\ UNCHANGED <<engineVars, statsVars, now, ercotVars, routeVars, rowsVars, slotValues, isoVars, pageVars>>

\* the engine on integer observations, and the arithmetic of one slot on
\* floating-point observations
InitOutput == InitEngine \/ InitSlot

NextOutput == CallBuildSeasonalForecast \/ AverageSlot

SpecOutput == InitOutput /\ [][NextOutput]_vars

-----------------------------------------------------------------------------
(* buildIsoFromDateHourInterval: one call *)

\* the days of the calls: the day before the transition and the day of it
IsoDates == {58, 59}

InitIso ==
    /\ zone \in Zones
    /\ targetDayStart = 0
    /\ history = <<>>
    /\ weeksLookback = 4
    /\ points = <<>>
    /\ IdleStats
    /\ now = 0
    /\ IdleErcot
    /\ scenario = NoScenario
    /\ IdleGet
    /\ IdleRows
    /\ pc = "iso"
    /\ isoArgs \in [dateStr : IsoDates, deliveryHour : 1..24, deliveryInterval : 1..4]
    /\ isoResult = none
    /\ IdlePage

CallBuildIso ==
    /\ pc = "iso"
    /\ isoResult' = buildIsoFromDateHourInterval(zone, isoArgs.dateStr, isoArgs.deliveryHour,
                                           isoArgs.deliveryInterval)
    /\ pc' = "built"
    /\ UNCHANGED <<engineVars, statsVars, now, ercotVars, routeVars, rowsVars, slotVars, isoArgs, pageVars>>

NextIso == CallBuildIso

SpecIso == InitIso /\ [][NextIso]_vars

-----------------------------------------------------------------------------
(* app/page.tsx: Page *)

\* changes of the selected date in one behaviour
MaxSelections == 3

\* the dates the date input offers
PageDates == { Ymd(Today), Ymd(Today + 1), Ymd(Today + 2) }

\* what the request of an effect comes to: a document for its date, an error
\* document with a status that is not ok, or a failure of fetch or resp.json()
FetchOutcomes(d) ==
    { [ok |-> TRUE, json |-> [date |-> d]],
      [ok |-> FALSE, json |-> [error |-> "Date must be within the next 7 days"]],
      [ok |-> FALSE, json |-> [error |-> "Failed to fetch"]] }

\* return () => { cancelled = true; } for the latest run
cleanup(es) == [k \in DOMAIN es |-> IF k = Len(es) THEN [es[k] EXCEPT !.cancelled = TRUE] ELSE es[k]]

\* variant: the setters are called whatever cancelled is
notTested(effect) == TRUE

\* if (!cancelled)
notCancelled(effect) == ~effect.cancelled

\* the first render with date = ymd(today), and its effect
InitPage ==
    /\ IdleEngine
    /\ IdleStats
    /\ pc = "page"
    /\ now = 0
    /\ IdleErcot
    /\ scenario = NoScenario
    /\ IdleGet
    /\ IdleRows
    /\ IdleIso
    /\ mounted = TRUE
    /\ pageDate = Ymd(Today)
    /\ pageData = null
    /\ pageErr = null
    /\ pageLoading = TRUE
    /\ effects = <<[date |-> Ymd(Today), cancelled |-> FALSE, pending |-> TRUE]>>

pageFrame == UNCHANGED <<engineVars, statsVars, pc, now, ercotVars, routeVars, rowsVars,
                         slotVars, isoVars>>

\* onChange: setDate(e.target.value) with another date; the render that
\* follows runs the cleanup of the previous effect and then the effect
SelectDate ==
    /\ mounted
    /\ Len(effects) <= MaxSelections
    /\ \E d \in PageDates \ {pageDate} :
          /\ pageDate' = d
          /\ effects' = Append(cleanup(effects), [date |-> d, cancelled |-> FALSE, pending |-> TRUE])
          /\ pageLoading' = TRUE
          /\ pageErr' = null
    /\ UNCHANGED <<mounted, pageData>>
    /\ pageFrame

\* the component unmounts: the cleanup of the latest effect
Unmount ==
    /\ mounted
    /\ mounted' = FALSE
    /\ effects' = cleanup(effects)
    /\ UNCHANGED <<pageDate, pageData, pageErr, pageLoading>>
    /\ pageFrame

\* the request of run k settles: the rest of the async function
FetchReturns ==
    /\ \E k \in DOMAIN effects :
          /\ effects[k].pending
          /\ \E o \in FetchOutcomes(effects[k].date) :
                /\ pageData' = IF o.ok /\ notCancelled(effects[k]) THEN o.json ELSE pageData
                /\ pageErr' = IF ~o.ok /\ notCancelled(effects[k]) THEN Text(o.json.error) ELSE pageErr
                /\ pageLoading' = IF notCancelled(effects[k]) THEN FALSE ELSE pageLoading
          /\ effects' = [effects EXCEPT ![k].pending = FALSE]
    /\ UNCHANGED <<mounted, pageDate>>
    /\ pageFrame

NextPage == SelectDate \/ Unmount \/ FetchReturns

SpecPage == InitPage /\ [][NextPage]_vars

-----------------------------------------------------------------------------

Init ==
    \/ InitEngine \/ InitStats \/ InitMape \/ InitDaily \/ InitErcot \/ InitRoute
    \/ InitBacktest \/ InitRows \/ InitSlot \/ InitIso \/ InitPage

Next ==
    \/ CallBuildSeasonalForecast \/ CallMae \/ CallMape \/ CallDailyStats
    \/ NextErcot
    \/ NextRoute
    \/ NextRows
    \/ AverageSlot
    \/ NextIso
    \/ NextPage

Spec == Init /\ [][Next]_vars

-----------------------------------------------------------------------------
(* Properties of buildSeasonalForecast *)

Returned == pc = "returned" /\ Len(points) > 0

TargetDay == LocalDay(zone, targetDayStart)

\* the UTC offset does not change during the target day
NoTransitionOnTargetDay ==
    \/ zone.shift = 0
    \/ zone.trans <= targetDayStart
    \/ zone.trans >= targetDayStart + 1440

\* the observation falls on one of the weeksLookback * 7 calendar days before
\* the target day: cutoff <= ts < targetDayStart with cutoff the local midnight
\* weeksLookback * 7 days before the target day
InLookback(o) ==
    /\ LocalDay(zone, o.ts) >= TargetDay - weeksLookback * 7
    /\ LocalDay(zone, o.ts) < TargetDay

OnTargetWeekday(o) == (LocalDay(zone, o.ts) - TargetDay) % 7 = 0

SlotOf(o) == (LocalTime(zone, o.ts) % 1440) \div 15

\* the positions of history whose observation counts for slot i
Matching(i) ==
    { k \in DOMAIN history :
        InLookback(history[k]) /\ OnTargetWeekday(history[k]) /\ SlotOf(history[k]) = i }

RECURSIVE SumOfValues(_)
SumOfValues(K) ==
    IF K = {} THEN 0
    ELSE LET k == CHOOSE x \in K : TRUE
         IN  history[k].value + SumOfValues(K \ {k})

MeanOf(K) == Frac(SumOfValues(K), Cardinality(K))

\* C1 as stated: 96 points, point i at targetDayStart + i * 15 minutes, on every
\* target day
C1_EveryDayQuarterHours ==
    Returned =>
        /\ Len(points) = 96
        /\ \A i \in Slots : points[i + 1].ts = toISOString(targetDayStart + i * 15)

\* C1 as amended: buildSeasonalForecast returns exactly 96 points, and when the
\* UTC offset does not change during the target day point i carries the
\* timestamp targetDayStart + i * 15 minutes
C1_NinetySixPoints ==
    pc = "returned" =>
        /\ Len(points) = 96
        /\ NoTransitionOnTargetDay =>
              \A i \in Slots : points[i + 1].ts = toISOString(targetDayStart + i * 15)

C1_Witness ==
    /\ Returned
    /\ zone.shift # 0
    /\ NoTransitionOnTargetDay
    /\ points[96].ts = toISOString(targetDayStart + 95 * 15)

\* C2: a slot with matching observations carries the arithmetic mean of exactly
\* those observations, an observation given twice counted twice
C2_SlotMean ==
    Returned =>
        \A i \in Slots : Matching(i) # {} => points[i + 1].value = MeanOf(Matching(i))

C2_Witness ==
    /\ Returned
    /\ \E i \in Slots :
          /\ Cardinality(Matching(i)) >= 2
          /\ points[i + 1].value = Frac(1, 2)

\* C3: with no matching observation at all the call returns 96 points of value 0
C3_ZeroFallback ==
    (pc = "returned" /\ \A i \in Slots : Matching(i) = {}) =>
        /\ Len(points) = 96
        /\ \A i \in Slots : points[i + 1].value = Num(0)

C3_Witness ==
    /\ Returned
    /\ history # <<>>
    /\ \A i \in Slots : Matching(i) = {}
    /\ points[1].value = Num(0)

\* C4: a slot i >= 1 without matching observation carries the value of slot i - 1
C4_CarryForward ==
    Returned =>
        \A i \in 1..95 : Matching(i) = {} => points[i + 1].value = points[i].value

C4_Witness ==
    /\ Returned
    /\ Matching(5) # {}
    /\ \A i \in 6..8 : Matching(i) = {}
    /\ points[6].value # Num(0)
    /\ points[9].value = points[6].value

\* C5: the slots before the first slot with data carry that slot's mean
C5_LeadingSlotsSeeded ==
    Returned =>
        \A k \in Slots :
            (Matching(k) # {} /\ \A j \in 0..(k - 1) : Matching(j) = {}) =>
                \A j \in 0..(k - 1) : points[j + 1].value = MeanOf(Matching(k))

\* the observations of history that count: in the lookback, on the target weekday
Relevant(h) == SelectSeq(h, LAMBDA o : InLookback(o) /\ OnTargetWeekday(o))

\* C6: the output is the output for the observations in [cutoff, targetDayStart)
\* on the target weekday alone, so every other observation is without effect
C6_OnlyTheWindowCounts ==
    Returned =>
        points = buildSeasonalForecast(zone, targetDayStart, Relevant(history),
                                       weeksLookback)

C6_Witness ==
    /\ Returned
    /\ Relevant(history) # <<>>
    /\ Relevant(history) # history
    /\ points[96].value # Num(0)

\* the sequences with the same observations as h, each as often as in h
Reorderings(h) ==
    { [k \in DOMAIN h |-> h[f[k]]] :
        f \in { g \in [DOMAIN h -> DOMAIN h] : \A k \in DOMAIN h : \E j \in DOMAIN h : g[j] = k } }

-----------------------------------------------------------------------------
(* Properties of mae *)

MinLen == IF Len(actual) < Len(pred) THEN Len(actual) ELSE Len(pred)

RECURSIVE SumAbsDiff(_)
SumAbsDiff(n) ==
    IF n = 0 THEN Num(0)
    ELSE NumAdd(SumAbsDiff(n - 1), NumAbs(NumSub(actual[n], pred[n])))

\* C9: mae is the mean absolute difference over the first
\* min(len(actual), len(predicted)) positions
C9_MeanOverShorterLength ==
    (pc = "returned" /\ MinLen > 0) =>
        maeResult = NumDivCount(SumAbsDiff(MinLen), MinLen)

\* C10: mae of an empty actual or an empty predicted is NaN
C10_EmptyGivesNaN ==
    (pc = "returned" /\ (actual = <<>> \/ pred = <<>>)) => maeResult = NaN

C10_Witness ==
    /\ pc = "returned"
    /\ actual # <<>>
    /\ pred = <<>>
    /\ maeResult = NaN

-----------------------------------------------------------------------------
(* Properties of mape *)

\* epsilon = 1e-6
epsilon == Frac(1, 1000000)

\* the positions among the first min(len) whose actual is further from zero
\* than epsilon (a pair with |actual| <= epsilon is skipped)
Qualifying == { i \in 1..MinLen : NumLess(epsilon, NumAbs(actual[i])) }

RECURSIVE SumRatios(_)
SumRatios(K) ==
    IF K = {} THEN Num(0)
    ELSE LET i == CHOOSE x \in K : TRUE
         IN  NumAdd(NumAbs(NumDiv(NumSub(actual[i], pred[i]), actual[i])),
                    SumRatios(K \ {i}))

\* C11: with a qualifying pair, mape is 100 times the mean of |(a - p) / a| over
\* exactly the qualifying pairs among the first min(len(actual), len(predicted))
C11_MeanRatioOfQualifyingPairs ==
    (pc = "returned" /\ mapeResult # none /\ Qualifying # {}) =>
        mapeResult = NumMul(NumDivCount(SumRatios(Qualifying), Cardinality(Qualifying)),
                            Num(100))

\* C12: without a qualifying pair mape is the absent marker, not NaN and not 0
C12_AbsentWithoutQualifyingPair ==
    (pc = "returned" /\ mapeResult # none /\ Qualifying = {}) => mapeResult = null

-----------------------------------------------------------------------------
(* Properties of dailyStats *)

\* C13: dailyStats of an empty sequence is NaN in all four fields
C13_EmptyStatsAreNaN ==
    (pc = "returned" /\ statsResult # none /\ values = <<>>) =>
        /\ statsResult.min = NaN
        /\ statsResult.max = NaN
        /\ statsResult.avg = NaN
        /\ statsResult.std = NaN

C13_Witness == pc = "returned" /\ values = <<>> /\ statsResult.std = NaN

RECURSIVE SumSeq(_, _)
SumSeq(vs, n) == IF n = 0 THEN Num(0) ELSE NumAdd(SumSeq(vs, n - 1), vs[n])

Squares(vs) == [i \in DOMAIN vs |-> NumMul(vs[i], vs[i])]

\* the population variance: the mean of the squares less the square of the mean
PopulationVariance(vs) ==
    LET n == Len(vs)
        mean == NumDivCount(SumSeq(vs, n), n)
    IN  NumSub(NumDivCount(SumSeq(Squares(vs), n), n), NumMul(mean, mean))

\* C14: for N >= 1 values min and max are the extrema, avg is sum / N and std is
\* the root of the population variance (divisor N)
C14_ExtremaMeanPopulationStd ==
    (pc = "returned" /\ statsResult # none /\ values # <<>>) =>
        /\ \E i \in DOMAIN values : statsResult.min = values[i]
        /\ \A i \in DOMAIN values : ~NumLess(values[i], statsResult.min)
        /\ \E i \in DOMAIN values : statsResult.max = values[i]
        /\ \A i \in DOMAIN values : ~NumLess(statsResult.max, values[i])
        /\ statsResult.avg = NumDivCount(SumSeq(values, Len(values)), Len(values))
        /\ statsResult.std = Sqrt(PopulationVariance(values))

C14_Witness ==
    /\ pc = "returned"
    /\ Len(values) = 3
    /\ statsResult.min = Num(-3)
    /\ statsResult.max = Num(2)
    /\ statsResult.avg = Frac(-1, 3)
    /\ statsResult.std = Sqrt(Frac(38, 9))

-----------------------------------------------------------------------------
(* Properties of ercotGetJson *)

Transient(o) == o.kind = "abort" \/ (o.kind = "response" /\ o.status \in {429, 502, 503, 504})

\* C19: a data request is followed by another only after a transient outcome
\* (429, 502, 503, 504 or a timeout) and never after the second; any other
\* non-OK status ends the call at once with an error; an OK response ends the
\* call at once, with its JSON when the body parses
C19_RetryOnlyTransient ==
    /\ Len(outcomes) <= 2
    /\ \A i \in DOMAIN outcomes :
          /\ i < Len(outcomes) => Transient(outcomes[i])
          /\ (outcomes[i].kind = "response" /\ ~Transient(outcomes[i])) =>
                /\ i = Len(outcomes)
                /\ epc = "done"
                /\ IF outcomes[i].status = 200 /\ outcomes[i].text = "json"
                     THEN ercotResult = [json |-> "json"]
                     ELSE IsError(ercotResult)

C19_Witness ==
    /\ Len(outcomes) = 2
    /\ outcomes[1].kind = "response" /\ outcomes[1].status = 503
    /\ outcomes[2].kind = "response" /\ outcomes[2].status = 200
    /\ ercotResult = [json |-> "json"]

-----------------------------------------------------------------------------
(* Properties of the forecast route *)

\* the latest request has been answered
Answered == served > 0 /\ rpc = "idle"

CompareYmd == Today - 7

HistoryYmds == <<Today - 7, Today - 14, Today - 21, Today - 28>>

\* the rows the cache holds for a day
CachedRows(day) ==
    IF rowsKey(day) \in DOMAIN cache THEN cache[rowsKey(day)].value.rows ELSE <<>>

\* the rows of the four history days that are dated before the comparison day
RowsBeforeCompareDay ==
    SelectSeq(flat([i \in 1..4 |-> CachedRows(HistoryYmds[i])]),
              LAMBDA r : r.deliveryDate < CompareYmd)

\* C15: the backtest predictions are those of the engine run for the comparison
\* day on the rows dated before the comparison day: rows of the comparison day
\* or later change no prediction
C15_BacktestFromEarlierDaysOnly ==
    (Answered /\ response.status = 200 /\ request = Ymd(Today)) =>
        predVals = ValuesOf(buildSeasonalForecast(zone, UTC(zone, CompareYmd * 1440),
                                rowsToHistory(zone, RowsBeforeCompareDay), 4))

C15_Witness ==
    /\ Answered /\ response.status = 200 /\ request = Ymd(Today)
    /\ \A i \in 1..4 :
          CachedRows(HistoryYmds[i]) = FullRows(HistoryYmds[i], HistoryYmds[i] + 1)
    /\ predVals[1] = Num(18)
    /\ response.body.forecast[1].value = Frac(39, 2)

TimeoutMessages == {"ERCOT API request timed out", "ERCOT token request timed out"}

\* the date parameter names a day of the window today .. today + 7
Accepted(date) == date.kind = "ymd" /\ Today <= date.day /\ date.day <= Today + 7

\* C16: an error response has status 400, 502 or 504: 400 exactly for a date
\* that is missing, unparseable or outside the window, 504 exactly for an
\* upstream timeout and 502 for every other upstream failure
C16_StatusByCause ==
    (Answered /\ response.status # 200) =>
        /\ response.status \in {400, 502, 504}
        /\ (response.status = 400) = ~Accepted(request)
        /\ (response.status = 504) = (response.body.error \in TimeoutMessages)

\* request q neither read nor wrote the cache nor called the provider
Untouched(q) == \A k \in DOMAIN events.count : k.req # q

RECURSIVE SumAlignedErrors(_, _, _)
SumAlignedErrors(pts, prd, n) ==
    IF n = 0 THEN Num(0)
    ELSE NumAdd(SumAlignedErrors(pts, prd, n - 1),
                NumAbs(NumSub(pts[n].value, prd[pts[n].interval])))

\* C18: the backtest compares the actual of interval k with the prediction of
\* slot k - 1, whichever intervals the actuals lack
C18_AlignedByInterval ==
    (Answered /\ response.status = 200 /\ request = Ymd(Today)) =>
        response.body.backtest.mae =
            NumDivCount(SumAlignedErrors(response.body.actuals.points, predVals,
                                         Len(response.body.actuals.points)),
                        Len(response.body.actuals.points))

\* between ev and later the provider was called for key
CalledFor(ev, later, key) ==
    \E k \in DOMAIN later.count :
        /\ k.type = "call" /\ k.key = key
        /\ k \in DOMAIN ev.count => later.count[k] > ev.count[k]

\* the time to live of an entry: 10 minutes for a response, 60 for a day's rows
TimeToLive(key) == IF key.prefix = "forecast_v4" THEN 20 ELSE 120

\* C20: cacheGet returns the value of an entry until the time to live after it
\* was stored is over and deletes the entry afterwards; and no call of the
\* provider for a day starts within 60 minutes after rows of that day were stored
C20_NoExpiredEntryNoRedundantCall ==
    [][/\ \A key \in DOMAIN cache :
             IF now <= events.storedAt[key] + TimeToLive(key)
               THEN cacheGet(cache, key, now).value = cache[key].value
               ELSE /\ cacheGet(cache, key, now).value = null
                    /\ key \notin DOMAIN cacheGet(cache, key, now).cache
       /\ \A key \in DOMAIN events.storedAt :
             CalledFor(events, events', key) =>
                now > events.storedAt[key] + 120]_vars

C20_Witness ==
    /\ Answered
    /\ served = 2
    /\ now = InitNow(zone) + 120
    /\ response.status = 200 /\ ~response.cached
    /\ \A k \in DOMAIN events.count : k.type = "call" => k.req = 1
    /\ events.storedAt[rowsKey(CompareYmd)] = InitNow(zone)

-----------------------------------------------------------------------------
(* Properties of rowsToHistory *)

\* x is a JSON number that is finite
FiniteNumber(x) == "num" \in DOMAIN x /\ x.den # 0

\* x is a JSON number that is an integer of lo..hi
IndexIn(x, lo, hi) == FiniteNumber(x) /\ x.den = 1 /\ x.num >= lo /\ x.num <= hi

\* the row has a date, the settlement point HB_WEST, an hour of 1..24, an
\* interval of 1..4 and a finite number as its value
Qualifies(r) ==
    /\ r.deliveryDate # NoDate
    /\ settlementPointOf(r.settlementPoint) = "HB_WEST"
    /\ IndexIn(r.deliveryHour, 1, 24)
    /\ IndexIn(r.deliveryInterval, 1, 4)
    /\ FiniteNumber(r.value)

\* the observation of a qualifying row
ObservationOf(z, r) ==
    [ts |-> newDate(buildIsoFromDateHourInterval(z, r.deliveryDate, r.deliveryHour.num,
                                                 r.deliveryInterval.num)),
     value |-> r.value.num]

QualifyingRows == { i \in DOMAIN rawRows : Qualifies(rawRows[i]) }

\* C21: the observations handed to the engine are those of the rows that have
\* the settlement point HB_WEST, a finite number as value and an hour and an
\* interval in range, one for each such row and none for any other row; each
\* has an engine slot of 0..95, and they are in ascending order of time
C21_OnlyValidatedRows ==
    pc = "handed" =>
        /\ Len(handed) = Cardinality(QualifyingRows)
        /\ \A i \in QualifyingRows :
              \E k \in DOMAIN handed : handed[k] = ObservationOf(zone, rawRows[i])
        /\ \A k \in DOMAIN handed : slotIndex(zone, handed[k].ts) \in Slots
        /\ \A k \in 1..(Len(handed) - 1) : handed[k].ts <= handed[k + 1].ts

-----------------------------------------------------------------------------
(* The range of the output of buildSeasonalForecast *)

\* the positions of history that count for some slot
AllMatching ==
    { k \in DOMAIN history : InLookback(history[k]) /\ OnTargetWeekday(history[k]) }

\* the number v lies between the smallest and the largest value at the positions K
InRangeOf(v, K) ==
    /\ \E k \in K : history[k].value * v.den <= v.num
    /\ \E k \in K : history[k].value * v.den >= v.num

\* every value of the output is a finite number; it is 0 while no slot up to its
\* own has a matching observation, and from then on lies between the smallest
\* and the largest matching observation
OutputInRange ==
    Returned =>
        \A i \in Slots :
            LET v == points[i + 1].value
            IN  /\ "num" \in DOMAIN v /\ v.den # 0
                /\ IF \A k \in AllMatching : SlotOf(history[k]) > i THEN v = Num(0)
                   ELSE InRangeOf(v, AllMatching)

\* the exact sum of the first k values of the slot
RECURSIVE ExactSum(_, _)
ExactSum(vs, k) == IF k = 0 THEN Num(0) ELSE NumAdd(ExactSum(vs, k - 1), vs[k])

\* no addition for the slot was rounded or overflowed
SumsExact == \A k \in 1..Len(slotValues) : sumOfSlot(slotValues, k) = ExactSum(slotValues, k)

Averaged == pc = "averaged"

\* the average of the slot is finite and lies between the smallest and the
\* largest of its values
MeanInRange ==
    /\ "num" \in DOMAIN slotMean /\ slotMean.den # 0
    /\ \E k \in DOMAIN slotValues : ~NumLess(slotMean, slotValues[k])
    /\ \E k \in DOMAIN slotValues : ~NumLess(slotValues[k], slotMean)

\* C22 as stated: every output value is 0 (while no slot up to its own has
\* matching data) or lies between the smallest and the largest matching
\* observation, and none is NaN or infinite when the observations are finite
C22_ValuesWithinObservations ==
    /\ OutputInRange
    /\ Averaged => MeanInRange

\* C22 as amended: the same, for the slots whose sum is computed without
\* rounding and without overflow; no output value is NaN
C22_ValuesWithinObservationsWhenSumsExact ==
    /\ OutputInRange
    /\ Averaged => slotMean # NaN
    /\ (Averaged /\ SumsExact) => MeanInRange

C22_Witness ==
    /\ Averaged
    /\ SumsExact
    /\ Len(slotValues) = 3
    /\ slotMean # NumDivCount(ExactSum(slotValues, 3), 3)
    /\ slotValues[1] # slotValues[3]

-----------------------------------------------------------------------------
(* The slot of the provider and the slot of the engine *)

Built == pc = "built"

\* the instant of the string, as new Date(tsIso) reads it
BuiltInstant == newDate(isoResult)

ProviderSlot == daySlot96(isoArgs.deliveryHour, isoArgs.deliveryInterval)

\* the wall-clock time the arguments name
NamedWallClock ==
    isoArgs.dateStr * 1440 + (isoArgs.deliveryHour - 1) * 60 + (isoArgs.deliveryInterval - 1) * 15

\* the clocks of the zone skip that wall-clock time
SkippedWallClock == LocalTime(zone, UTC(zone, NamedWallClock)) # NamedWallClock

\* the instant buildSeasonalForecast emits for slot i when the day is the target day
EmittedFor(i) == slotTime(zone, setHours0(zone, parseYmd(zone, Ymd(isoArgs.dateStr)).time), i)

OnTheDay == LocalDay(zone, BuiltInstant) = isoArgs.dateStr

\* C23 as stated: the timestamp built for delivery hour h and quarter q has the
\* engine slot (h-1)*4 + (q-1), lies on the day, and is the instant the engine
\* emits for that slot
C23_SlotsAgree ==
    Built =>
        /\ slotIndex(zone, BuiltInstant) = ProviderSlot
        /\ OnTheDay
        /\ BuiltInstant = EmittedFor(ProviderSlot)

\* C23 as amended: the timestamp lies on the day and is the instant the engine
\* emits for slot (h-1)*4 + (q-1); its engine slot is that slot unless the
\* clocks skip the wall-clock time, and then it is the slot one hour later
C23_SlotsAgreeUnlessSkipped ==
    Built =>
        /\ OnTheDay
        /\ BuiltInstant = EmittedFor(ProviderSlot)
        /\ ~SkippedWallClock => slotIndex(zone, BuiltInstant) = ProviderSlot
        /\ SkippedWallClock => slotIndex(zone, BuiltInstant) = ProviderSlot + 4

C23_Witness ==
    /\ Built
    /\ SkippedWallClock
    /\ isoArgs.deliveryHour = 3
    /\ slotIndex(zone, BuiltInstant) = 12
    /\ BuiltInstant = EmittedFor(8)

-----------------------------------------------------------------------------
(* The days behind the forecast and behind the backtest prediction *)

\* the provider answered every history day with full rows
FullDataAnswered ==
    /\ Answered /\ response.status = 200 /\ request = Ymd(Today)
    /\ \A i \in 1..4 :
          CachedRows(HistoryYmds[i]) = FullRows(HistoryYmds[i], HistoryYmds[i] + 1)

AllFourDays == { HistoryYmds[i] : i \in 1..4 }

EarlierThreeDays == { HistoryYmds[i] : i \in 2..4 }

RECURSIVE SumOfPrices(_, _)
SumOfPrices(days, slot) ==
    IF days = {} THEN 0
    ELSE LET d == CHOOSE x \in days : TRUE
         IN  Price(d, slot) + SumOfPrices(days \ {d}, slot)

\* the mean of the prices of a slot over some days
MeanOverDays(days, slot) == Frac(SumOfPrices(days, slot), Cardinality(days))

\* the engine slot of the row of quarter hour s of day d
EngineSlotOn(d, s) == slotIndex(zone, UTC(zone, d * 1440 + s * 15))

\* on each of the days, the rows the engine counts for slot i are the row of
\* quarter hour i and no other
OneRowEachDay(days, i) ==
    \A d \in days : \A s \in ProvidedSlots : (EngineSlotOn(d, s) = i) <=> (s = i)

\* C24 as stated: with full data for the four history days the forecast at
\* each slot is the mean over the four days and the backtest prediction is the
\* mean over the three days target-14, target-21 and target-28
C24_FourDaysAndThreeDays ==
    FullDataAnswered =>
        \A i \in ProvidedSlots :
            /\ response.body.forecast[i + 1].value = MeanOverDays(AllFourDays, i)
            /\ predVals[i + 1] = MeanOverDays(EarlierThreeDays, i)

\* C24 as amended: the same, at each slot for which every day concerned has
\* exactly its own row, which fails for the hour that the clocks skip on a
\* history day and for the hour after it
C24_FourDaysAndThreeDaysOffTransitions ==
    FullDataAnswered =>
        \A i \in ProvidedSlots :
            /\ OneRowEachDay(AllFourDays, i) =>
                   response.body.forecast[i + 1].value = MeanOverDays(AllFourDays, i)
            /\ OneRowEachDay(EarlierThreeDays, i) =>
                   predVals[i + 1] = MeanOverDays(EarlierThreeDays, i)

C24_Witness ==
    /\ FullDataAnswered
    /\ ~OneRowEachDay(AllFourDays, 8)
    /\ response.body.forecast[1].value = MeanOverDays(AllFourDays, 0)
    /\ response.body.forecast[1].value # predVals[1]
    /\ response.body.forecast[9].value = MeanOverDays(EarlierThreeDays, 8)
    /\ predVals[9] = MeanOverDays(EarlierThreeDays, 8)

-----------------------------------------------------------------------------
(* Rows of the following day *)

\* the rows of the list that are dated `day`
OwnRows(rows, day) == SelectSeq(rows, LAMBDA r : r.deliveryDate = day)

\* what GET computes from the rows of the comparison day and of the four
\* history days with the rows of other days taken out
FromOwnRows ==
    compute(zone, parseYmd(zone, request).time,
            OwnRows(CachedRows(CompareYmd), CompareYmd),
            [i \in 1..4 |-> OwnRows(CachedRows(HistoryYmds[i]), HistoryYmds[i])])

Computed == Answered /\ request = Ymd(Today) /\ response.status \in {200, 502}

\* C25: rows of the following day change no forecast and no backtest
\* prediction: the result is the one computed from the rows of the four
\* history days alone
C25_FollowingDayRowsIgnored ==
    Computed =>
        /\ response.status = FromOwnRows.status
        /\ response.status = 200 =>
              /\ response.body.forecast = FromOwnRows.body.forecast
              /\ predVals = FromOwnRows.predVals

\* the same where the four history days have a row of their own
C25_IgnoredWhereOwnHistory ==
    (Computed /\ FromOwnRows.status = 200) =>
        /\ response.status = 200
        /\ response.body.forecast = FromOwnRows.body.forecast
        /\ predVals = FromOwnRows.predVals

-----------------------------------------------------------------------------
(* What the response cache holds *)

ResponseKeys(c) == { k \in DOMAIN c : k.prefix = respCacheKey(0).prefix }

\* a full forecast document
IsDocument(body) ==
    /\ DOMAIN body = {"date", "forecast", "actuals", "backtest"}
    /\ Len(body.forecast) = 96

\* C26: the response cache holds forecast documents only, an entry of it is
\* written only by a request that answers 200 with that document, and a
\* response from the cache is a forecast document with status 200
C26_OnlySuccessesCached ==
    [][/\ \A k \in ResponseKeys(cache') :
             /\ IsDocument(cache'[k].value)
             /\ (k \notin DOMAIN cache \/ cache[k] # cache'[k]) =>
                    /\ rpc' = "idle"
                    /\ response' = [status |-> 200, body |-> cache'[k].value, cached |-> FALSE]
       /\ response'.status \in {400, 502, 504} =>
             \A k \in ResponseKeys(cache') : k \in DOMAIN cache /\ cache'[k] = cache[k]
       /\ response'.cached => response'.status = 200 /\ IsDocument(response'.body)]_vars

C26_Witness ==
    /\ Answered
    /\ response.cached
    /\ response.status = 200
    /\ IsDocument(response.body)
    /\ served = 2
    /\ ResponseKeys(cache) = {respCacheKey(request.day)}

-----------------------------------------------------------------------------
(* The upstream calls of a request that starts with an empty cache *)

CallsOf(q) == { e \in DOMAIN events.count : e.type = "call" /\ e.req = q }

CallOf(q, day) == [type |-> "call", key |-> rowsKey(day), req |-> q]

\* the first request was accepted: its target day and its four history days
FirstTarget == request.day

FirstHistoryDays == { FirstTarget - 7 * k : k \in 1..4 }

\* C27: a first request, which finds the cache empty, that succeeds has called
\* the upstream once for each of the days target-7, -14, -21 and -28 and for
\* no other day; while it waits for the rows of target-7 no other call is
\* under way, and once the history fetches are under way those rows are cached
C27_OneCallPerDay ==
    served = 1 =>
        /\ (Answered /\ response.status = 200) =>
              /\ CallsOf(1) = { CallOf(1, d) : d \in FirstHistoryDays }
              /\ \A e \in CallsOf(1) : events.count[e] = 1
        /\ rpc = "compare" => CallsOf(1) = { CallOf(1, FirstTarget - 7) }
        /\ rpc = "history" =>
              /\ rowsKey(FirstTarget - 7) \in DOMAIN cache
              /\ \A f \in inflight : f.from # FirstTarget - 7
              /\ events.count[CallOf(1, FirstTarget - 7)] = 1

C27_Witness ==
    /\ served = 1
    /\ Answered /\ response.status = 200
    /\ Cardinality(CallsOf(1)) = 4
    /\ Cardinality(DOMAIN cache) = 5

-----------------------------------------------------------------------------
(* The end of a call of ercotGetJson *)

CallUnderWay == epc \in {"token", "data", "sleep"}

CallEnded == epc = "done"

FailedAfterRetries == Error("ERCOT API failed after retries", FALSE)

\* the last data request was answered 200 with a JSON text
LastIsOkJson ==
    /\ outcomes # <<>>
    /\ outcomes[Len(outcomes)].kind = "response"
    /\ outcomes[Len(outcomes)].status = 200
    /\ outcomes[Len(outcomes)].text = "json"

\* C28: every call of ercotGetJson ends, after at most two data requests, with
\* the parsed JSON of an OK response or with a thrown error, which is never
\* the error 'failed after retries' that follows the loop
C28_EndsWithinTwoAttempts ==
    /\ [](/\ attempt <= 2
          /\ Len(outcomes) <= 2
          /\ ercotResult # FailedAfterRetries
          /\ CallEnded =>
                IF LastIsOkJson THEN ercotResult = JsonParse("json")
                ELSE IsError(ercotResult))
    /\ (CallUnderWay ~> CallEnded)

C28_Witness ==
    /\ CallEnded
    /\ Len(outcomes) = 2
    /\ outcomes[1].kind = "abort"
    /\ outcomes[2].kind = "abort"
    /\ ercotResult = Error("ERCOT API request timed out", TRUE)

-----------------------------------------------------------------------------
(* The token cache *)

\* ercotGetJson is called and reaches getIdToken
GetIdTokenCalled == calls' = calls + 1 /\ env.subKey

\* the time is more than 30 seconds (one unit) before the recorded expiry
WellBeforeExpiry == tokenCache # null /\ now + 1 < tokenCache.expMs

ReturnsCachedToken == epc' = "data" /\ token' = tokenCache.token /\ tokenCache' = tokenCache

RequestsToken == epc' = "token"

\* the token request under way is answered 200 with a JSON text that holds
\* an id_token, which is stored with its expiry and returned
StoredFromSuccess ==
    /\ epc = "token"
    /\ \E o \in TokenOutcomes :
          /\ o.kind = "response" /\ o.status = 200 /\ o.text = "json"
          /\ o.id_token # undefined
          /\ tokenCache'.token = o.id_token
          /\ token' = o.id_token
    /\ tokenCache'.expMs >= now

\* C29 as stated: getIdToken returns the cached token exactly while the time
\* is more than 30 seconds before its expiry and otherwise requests a token;
\* the cache changes only with a successful token response
C29_CachedTokenUntilSkew ==
    [][/\ GetIdTokenCalled =>
             IF WellBeforeExpiry THEN ReturnsCachedToken ELSE RequestsToken
       /\ tokenCache' # tokenCache => StoredFromSuccess]_vars

\* C29 as amended: otherwise it requests a token if the user name and the
\* password are configured, and throws without a request if they are not
C29_CachedTokenUntilSkewOrRequest ==
    [][/\ GetIdTokenCalled =>
             IF WellBeforeExpiry THEN ReturnsCachedToken
             ELSE IF env.credentials THEN RequestsToken
             ELSE /\ epc' = "done"
                  /\ ercotResult' = Error("Missing ERCOT_USERNAME / ERCOT_PASSWORD", FALSE)
                  /\ tokenCache' = tokenCache
       /\ tokenCache' # tokenCache => StoredFromSuccess]_vars

C29_Witness ==
    /\ calls = 2
    /\ epc = "token"
    /\ tokenCache # null
    /\ now + 1 = tokenCache.expMs

-----------------------------------------------------------------------------
(* The page shows the answer to its current request only *)

\* run k of the effect is the one of the current selection: the latest run,
\* of a mounted component
Current(k) == mounted /\ k = Len(effects)

\* the request of run k settles in this step
Settles(k) == k \in DOMAIN effects /\ effects[k].pending /\ ~effects'[k].pending

\* a new run of the effect starts in this step
Starts == Len(effects') = Len(effects) + 1

\* C30: data and err change only when the request of the current selection
\* settles, or, for err, when a new run of the effect clears it; a request
\* whose date was deselected, or whose component unmounted, changes neither,
\* in whatever order the requests settle
C30_OnlyCurrentRequestShows ==
    [][/\ pageData' # pageData =>
             \E k \in DOMAIN effects :
                 Settles(k) /\ Current(k) /\ effects[k].date = pageDate
                            /\ pageData' = [date |-> pageDate]
       /\ pageErr' # pageErr =>
             \/ Starts /\ pageErr' = null
             \/ \E k \in DOMAIN effects :
                    Settles(k) /\ Current(k) /\ effects[k].date = pageDate
       /\ \A k \in DOMAIN effects :
             (Settles(k) /\ ~Current(k)) => pageData' = pageData /\ pageErr' = pageErr]_vars

\* a request of an earlier selection of the same date settled after the
\* request of the current selection
C30_Witness ==
    /\ Len(effects) = 3
    /\ effects[1].date = effects[3].date
    /\ \A k \in 1..3 : ~effects[k].pending
    /\ effects[1].cancelled /\ effects[2].cancelled /\ ~effects[3].cancelled
    /\ pageData = [date |-> pageDate]
    /\ pageErr = null
    /\ ~pageLoading

====
